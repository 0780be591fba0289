--------------------------- MODULE DynPoolProofs ----------------------------
(***************************************************************************)
(* For every capacity and every choice of the limits: the counters of the  *)
(* self-sizing pool agree with its threads and with the creations that     *)
(* failed, it never asks so many threads to leave that too few stay, and   *)
(* its ring is a FIFO.                                                     *)
(***************************************************************************)
EXTENDS DynPool, FiniteSetTheorems, TLAPS

Labels == {"none", "lock", "wait", "woken", "start", "run", "exited"}

(* What the counters depend on: types, that the flag is set by destroy     *)
(* only, that pool_init creates its last worker last, and that one round   *)
(* at most has failures.                                                   *)
Base ==
  /\ owner \in {"init", "live", "sleep", "freed", "crashed"}
  /\ wpc \in [Places -> Labels]
  /\ live_threads \in Nat /\ exit_threads \in Nat /\ closing \in BOOLEAN
  /\ closing => owner \in {"sleep", "freed"}
  /\ owner = "sleep" => closing
  /\ uncreated \in 0 .. Step
  /\ owner = "init" => wpc[MinFree] = "none"

CInv == Base /\ CountersAgree /\ NeverTooFew

LEMMA Constants ==
  /\ MaxThreads \in Nat /\ MinFree \in Nat /\ MaxFree \in Nat /\ Step \in Nat
  /\ 1 <= MinFree /\ MinFree <= MaxFree /\ MinFree <= MaxThreads
  /\ MinFree \in Places /\ 1 .. MinFree \subseteq Places
  BY DynAssumption DEF Places

LEMMA WorkersFinite ==
  ASSUME NEW S, S \subseteq Places
  PROVE  IsFiniteSet(S) /\ Cardinality(S) \in Nat /\ Cardinality(S) <= MaxThreads
<1>1. IsFiniteSet(Places) /\ Cardinality(Places) = MaxThreads
  BY Constants, FS_Interval DEF Places
<1> QED
  BY <1>1, Constants, FS_Subset, FS_CardinalityType

LEMMA SetsOfWorkers ==
  /\ Alive \subseteq Places
  /\ \A L : In(L) \subseteq Places
  BY Constants DEF Alive, In

(* Waking sleepers changes nothing the counters see. *)
LEMMA WakeUpOnlyWakes ==
  ASSUME Base, NEW n, wpc' \in WakeUp(n, wpc)
  PROVE  /\ wpc' \in [Places -> Labels]
         /\ \A w \in Places : wpc'[w] = wpc[w] \/ (wpc[w] = "wait" /\ wpc'[w] = "woken")
  BY DEF Base, WakeUp, Labels

LEMMA SameSets ==
  ASSUME Base, owner' = owner,
         wpc' \in [Places -> Labels],
         \A w \in Places : wpc'[w] = wpc[w] \/ (wpc[w] = "wait" /\ wpc'[w] = "woken")
  PROVE  Alive' = Alive /\ In({"run"})' = In({"run"}) /\ (owner = "init" => wpc'[MinFree] = "none")
  BY Constants DEF Alive, In, Base

(* Busy workers are alive: a creation that failed leaves them too few.     *)
LEMMA BusyAreFewer ==
  ASSUME NEW busy, NEW alive, busy \subseteq alive, alive \subseteq Places, NEW failed \in Nat
  PROVE  failed > 0 => Cardinality(busy) < Cardinality(alive) + failed
<1>1. IsFiniteSet(alive) /\ Cardinality(alive) \in Nat /\ IsFiniteSet(busy) /\ Cardinality(busy) \in Nat
  BY WorkersFinite
<1>2. Cardinality(busy) <= Cardinality(alive)
  BY <1>1, FS_Subset
<1> QED
  BY <1>1, <1>2

LEMMA BusyAmongAlive ==
  /\ In({"run"}) \subseteq Alive /\ Alive \subseteq Places
  /\ In({"run"})' \subseteq Alive' /\ Alive' \subseteq Places
  BY Constants DEF In, Alive
-----------------------------------------------------------------------------
LEMMA CInit == DynInit => CInv
<1> SUFFICES ASSUME DynInit PROVE CInv
  OBVIOUS
<1>1. Base
  <2>1. 0 \in 0 .. Step
    BY Constants
  <2> QED
    BY <2>1, Constants DEF DynInit, Base, Labels
<1>2. In({"run"}) = {} /\ Alive = 1 .. MinFree
  BY Constants DEF DynInit, In, Alive
<1>3. Cardinality({}) = 0 /\ Cardinality(1 .. MinFree) = MinFree
  BY Constants, FS_EmptySet, FS_Interval
<1>4. CountersAgree
  <2>1. busy_threads = 0 /\ live_threads = MinFree /\ uncreated = 0
    BY DEF DynInit
  <2>2. Cardinality(In({"run"})) = 0 /\ Cardinality(Alive) = MinFree
    BY <1>2, <1>3, Zenon
  <2>3. MinFree = MinFree + 0 /\ ~(0 > 0)
    BY Constants
  <2> QED
    BY <2>1, <2>2, <2>3, Zenon DEF CountersAgree
<1>5. NeverTooFew
  BY <1>2, <1>3, Constants DEF DynInit, NeverTooFew
<1> QED
  BY <1>1, <1>4, <1>5 DEF CInv

(* A step of worker w between two labels that both count as alive, neither *)
(* in a task.                                                              *)
LEMMA WorkerMoves ==
  ASSUME CInv, NEW w \in Places, NEW to \in {"wait", "woken", "start"},
         wpc[w] \in {"lock", "wait", "woken"}, wpc' = [wpc EXCEPT ![w] = to],
         UNCHANGED <<owner, counters, uncreated>>
  PROVE  CInv'
<1>1. Base'
  BY DEF CInv, Base, counters, Labels
<1>2. In({"run"})' = In({"run"}) /\ Alive' = Alive
  BY Constants DEF CInv, Base, In, Alive
<1> QED
  BY <1>1, <1>2 DEF CInv, CountersAgree, NeverTooFew, counters

LEMMA StepBusyBegin ==
  ASSUME CInv, NEW w \in Places, BusyBegin(w)
  PROVE  CInv'
<1>1. Base'
  BY DEF CInv, Base, BusyBegin, Labels
<1>2. Alive' = Alive /\ In({"run"})' = In({"run"}) \cup {w} /\ w \notin In({"run"})
  BY Constants DEF CInv, Base, In, Alive, BusyBegin
<1>3. Cardinality(In({"run"})') = Cardinality(In({"run"})) + 1
  BY <1>2, SetsOfWorkers, WorkersFinite, FS_AddElement
<1>4. CountersAgree'
  <2>1. UNCHANGED <<owner, live_threads, uncreated>> /\ uncreated \in Nat
    BY Constants DEF CInv, Base, BusyBegin
  <2>2. uncreated > 0 => Cardinality(In({"run"})') < Cardinality(Alive') + uncreated
    BY <2>1, BusyAreFewer, BusyAmongAlive
  <2>3. busy_threads' = Cardinality(In({"run"})')
    BY <1>3 DEF CInv, CountersAgree, BusyBegin
  <2> QED
    BY <1>2, <2>1, <2>2, <2>3 DEF CInv, CountersAgree
<1> QED
  BY <1>1, <1>2, <1>4 DEF CInv, NeverTooFew, BusyBegin

LEMMA StepBusyEnd ==
  ASSUME CInv, NEW w \in Places, BusyEnd(w)
  PROVE  CInv'
<1>1. Base'
  BY DEF CInv, Base, BusyEnd, Labels
<1>2. Alive' = Alive /\ In({"run"})' = In({"run"}) \ {w} /\ w \in In({"run"})
  BY Constants DEF CInv, Base, In, Alive, BusyEnd
<1>3. Cardinality(In({"run"})') = Cardinality(In({"run"})) - 1
  BY <1>2, SetsOfWorkers, WorkersFinite, FS_RemoveElement
<1>4. CountersAgree'
  <2>1. UNCHANGED <<owner, live_threads, uncreated>> /\ uncreated \in Nat
    BY Constants DEF CInv, Base, BusyEnd
  <2>2. uncreated > 0 => Cardinality(In({"run"})') < Cardinality(Alive') + uncreated
    BY <2>1, BusyAreFewer, BusyAmongAlive
  <2>3. busy_threads' = Cardinality(In({"run"})')
    BY <1>3 DEF CInv, CountersAgree, BusyEnd
  <2> QED
    BY <1>2, <2>1, <2>2, <2>3 DEF CInv, CountersAgree
<1> QED
  BY <1>1, <1>2, <1>4 DEF CInv, NeverTooFew, BusyEnd

(* The request is dequeued back together with the worker. *)
LEMMA StepRetire ==
  ASSUME CInv, NEW w \in Places, Retire(w)
  PROVE  CInv'
<1>1. wpc[w] \in {"lock", "woken"} /\ wpc' = [wpc EXCEPT ![w] = "exited"] /\ ~closing /\ exit_threads > 0
      /\ exit_threads' = exit_threads - 1 /\ live_threads' = live_threads - 1
      /\ UNCHANGED <<owner, busy_threads, closing, uncreated>>
  BY DEF Retire, GoesOn
<1>2. live_threads' \in Nat /\ exit_threads' \in Nat /\ live_threads' >= MinFree + exit_threads'
  BY <1>1, Constants DEF CInv, Base, NeverTooFew
<1>3. Base'
  BY <1>1, <1>2 DEF CInv, Base, Labels
<1>4. Alive' = Alive \ {w} /\ w \in Alive /\ In({"run"})' = In({"run"})
  BY <1>1, Constants DEF CInv, Base, In, Alive
<1>5. Cardinality(Alive') = Cardinality(Alive) - 1 /\ Cardinality(Alive) \in Nat
  BY <1>4, SetsOfWorkers, WorkersFinite, FS_RemoveElement
<1>6. owner \in {"init", "live"} => live_threads' = Cardinality(Alive') + uncreated'
  BY <1>1, <1>5 DEF CInv, Base, CountersAgree
<1>7. CountersAgree'
  <2>1. uncreated \in Nat
    BY Constants DEF CInv, Base
  <2>2. uncreated > 0 => Cardinality(In({"run"})') < Cardinality(Alive') + uncreated
    BY <2>1, BusyAreFewer, BusyAmongAlive
  <2>3. busy_threads' = Cardinality(In({"run"})')
    BY <1>1, <1>4 DEF CInv, CountersAgree
  <2> QED
    BY <1>1, <1>6, <2>2, <2>3 DEF CountersAgree
<1>8. NeverTooFew'
  BY <1>1, <1>2, <1>5, Constants DEF CInv, Base, NeverTooFew
<1> QED
  BY <1>3, <1>7, <1>8 DEF CInv

LEMMA StepWorker ==
  ASSUME CInv, NEW w \in Places, worker_job(w) \/ WakeSpuriously(w)
  PROVE  CInv'
<1>1. CASE WaitForTask(w)
  BY <1>1, WorkerMoves DEF WaitForTask
<1>2. CASE WorkerShutdown(w)
  <2>1. wpc[w] \in {"lock", "woken"} /\ wpc' = [wpc EXCEPT ![w] = "exited"] /\ closing
        /\ UNCHANGED <<owner, counters, uncreated>>
    BY <1>2 DEF WorkerShutdown, GoesOn
  <2>2. Base' /\ owner' \notin {"init", "live"} /\ In({"run"})' = In({"run"})
    BY <2>1 DEF CInv, Base, counters, Labels, In
  <2> QED
    BY <2>1, <2>2 DEF CInv, CountersAgree, NeverTooFew, counters
<1>3. CASE Dequeue(w)
  BY <1>3, WorkerMoves DEF Dequeue, GoesOn
<1>4. CASE WakeSpuriously(w)
  BY <1>4, WorkerMoves DEF WakeSpuriously
<1> QED
  BY <1>1, <1>2, <1>3, <1>4, StepRetire, StepBusyBegin, StepBusyEnd DEF worker_job

LEMMA StepCreate ==
  ASSUME CInv, CreateFirstWorkers
  PROVE  CInv'
<1> PICK w \in 1 .. MinFree :
      /\ wpc[w] = "none" /\ \A v \in 1 .. w - 1 : wpc[v] # "none"
      /\ wpc' = [wpc EXCEPT ![w] = "lock"]
      /\ owner' = IF w = MinFree THEN "live" ELSE "init"
  BY DEF CreateFirstWorkers
<1>1. owner = "init" /\ UNCHANGED <<counters, uncreated>>
  BY DEF CreateFirstWorkers
<1>2. w \in Places /\ Base'
  BY <1>1, Constants DEF CInv, Base, counters, Labels
<1>3. In({"run"})' = In({"run"})
  BY <1>2 DEF CInv, Base, In
<1>4. Alive' = Alive
  <2>1. CASE w = MinFree
    <3>1. \A v \in 1 .. MinFree : v # w => wpc[v] # "none"
      BY <2>1, Constants
    <3> QED
      BY <3>1, <1>1, <1>2, <2>1, Constants DEF CInv, Base, In, Alive
  <2>2. CASE w # MinFree
    BY <1>1, <1>2, <2>2, Constants DEF CInv, Base, In, Alive
  <2> QED
    BY <2>1, <2>2
<1> QED
  BY <1>1, <1>2, <1>3, <1>4 DEF CInv, CountersAgree, NeverTooFew, counters

(* Places are asked to leave only when that many are idle. *)
LEMMA StepShrink ==
  ASSUME CInv, AdminShrink
  PROVE  CInv'
<1>1. /\ wpc' \in [Places -> Labels]
      /\ \A w \in Places : wpc'[w] = wpc[w] \/ (wpc[w] = "wait" /\ wpc'[w] = "woken")
  BY WakeUpOnlyWakes DEF CInv, AdminShrink
<1>2. UNCHANGED <<owner, live_threads, busy_threads, closing, uncreated>> /\ exit_threads' = Step
  BY DEF AdminShrink
<1>3. Alive' = Alive /\ In({"run"})' = In({"run"}) /\ (owner = "init" => wpc'[MinFree] = "none")
  BY <1>1, <1>2, SameSets DEF CInv
<1>4. Base'
  BY <1>1, <1>2, <1>3, Constants DEF CInv, Base
<1>5. busy_threads \in Nat /\ Cardinality(Alive) \in Nat
  BY SetsOfWorkers, WorkersFinite DEF CInv, CountersAgree
<1>6. live_threads >= MaxFree + Step
  BY <1>5, Constants DEF AdminShrink, TooManyFree, CInv, Base
<1>7. NeverTooFew'
  <2>1. ASSUME owner \in {"init", "live"}, uncreated = 0
        PROVE  Cardinality(Alive) >= MinFree + Step
    BY <1>5, <1>6, <2>1, Constants DEF CInv, Base, CountersAgree
  <2>2. ASSUME owner \in {"init", "live"}, uncreated > 0
        PROVE  Cardinality(Alive) + Step >= MaxFree + Step
    BY <1>5, <1>6, <2>2, Constants DEF CInv, Base, CountersAgree
  <2>3. uncreated = 0 \/ uncreated > 0
    BY DEF CInv, Base
  <2>4. live_threads >= MinFree + Step
    BY <1>6, Constants DEF CInv, Base
  <2> QED
    BY <1>2, <1>3, <2>1, <2>2, <2>3, <2>4 DEF NeverTooFew
<1> QED
  BY <1>2, <1>3, <1>4, <1>7 DEF CInv, CountersAgree

(* Growth happens only after pool_init, before which the worker that is    *)
(* missing is live and not busy, and only while no creation has failed.    *)
LEMMA GrowSoundly ==
  ASSUME CInv, InUse, AdminGrow
  PROVE  owner = "live" /\ uncreated = 0
<1>1. owner \in {"init", "live"} /\ busy_threads = live_threads
  BY DEF CInv, Base, AdminGrow, InUse
<1>2. uncreated = 0
  BY <1>1 DEF CInv, Base, CountersAgree
<1>3. ASSUME owner = "init" PROVE FALSE
  <2>1. In({"run"}) \subseteq Alive /\ MinFree \in Alive /\ MinFree \notin In({"run"})
    BY <1>3, Constants DEF CInv, Base, In, Alive
  <2>2. Cardinality(In({"run"})) = Cardinality(Alive) => In({"run"}) = Alive
    BY <2>1, SetsOfWorkers, WorkersFinite, FS_Subset
  <2>3. Cardinality(In({"run"})) = Cardinality(Alive)
    <3>1. Cardinality(Alive) \in Nat
      BY SetsOfWorkers, WorkersFinite
    <3> QED
      BY <1>1, <1>2, <3>1 DEF CInv, CountersAgree
  <2> QED
    BY <2>1, <2>2, <2>3
<1> QED
  BY <1>1, <1>2, <1>3

LEMMA StepGrow ==
  ASSUME CInv, InUse, AdminGrow
  PROVE  CInv'
<1> PICK new \in SUBSET In({"none", "exited"}), lost \in SUBSET In({"none"}), failed \in 0 .. Step :
      /\ Found(new, lost, failed)
      /\ wpc' = [w \in Places |-> IF w \in new THEN "lock" ELSE IF w \in lost THEN "exited" ELSE wpc[w]]
      /\ live_threads' = live_threads + Cardinality(new) + failed
      /\ uncreated' = uncreated + failed
      /\ owner' \in {owner} \cup (IF failed > 0 THEN {"crashed"} ELSE {})
  BY DEF AdminGrow
<1>1. ~closing /\ UNCHANGED <<busy_threads, exit_threads, closing>> /\ owner = "live" /\ uncreated = 0
      /\ owner' \in {"live", "crashed"} /\ uncreated' = failed /\ failed \in Nat
  BY GrowSoundly, Constants DEF AdminGrow
<1>2. IsFiniteSet(new) /\ Cardinality(new) \in Nat /\ Cardinality(Alive) \in Nat /\ IsFiniteSet(Alive)
  BY SetsOfWorkers, WorkersFinite
<1>3. Base'
  BY <1>1, <1>2, Constants DEF CInv, Base, Labels
<1>4. In({"run"})' = In({"run"})
  BY DEF CInv, Base, In
<1>5. Alive' = Alive \cup new /\ Alive \cap new = {}
  BY <1>1 DEF CInv, Base, In, Alive
<1>6. Cardinality(Alive') = Cardinality(Alive) + Cardinality(new)
  <2>1. Cardinality(Alive \cup new) = Cardinality(Alive) + Cardinality(new) - Cardinality(Alive \cap new)
    BY <1>2, FS_Union
  <2>2. Cardinality(Alive \cap new) = 0
    BY <1>5, FS_EmptySet
  <2> QED
    BY <1>2, <1>5, <2>1, <2>2
<1>7. live_threads' = Cardinality(Alive') + uncreated'
  BY <1>1, <1>2, <1>6 DEF CInv, CountersAgree
<1>8. CountersAgree'
  <2>1. uncreated' > 0 => Cardinality(In({"run"})') < Cardinality(Alive') + uncreated'
    BY <1>1, BusyAreFewer, BusyAmongAlive
  <2>2. busy_threads' = Cardinality(In({"run"})')
    BY <1>1, <1>4 DEF CInv, CountersAgree
  <2> QED
    BY <1>7, <2>1, <2>2 DEF CountersAgree
<1>9. NeverTooFew'
  <2>1. Cardinality(Alive) >= MinFree + exit_threads
    BY <1>1 DEF CInv, NeverTooFew
  <2>2. Cardinality(Alive') >= MinFree + exit_threads'
    BY <1>1, <1>2, <1>6, <2>1, Constants DEF CInv, Base
  <2>3. live_threads' >= MinFree + exit_threads'
    BY <1>1, <1>2, <1>6, <1>7, <2>2, Constants DEF CInv, Base
  <2> QED
    BY <2>2, <2>3 DEF NeverTooFew
<1> QED
  BY <1>3, <1>8, <1>9 DEF CInv

LEMMA StepOthers ==
  ASSUME CInv,
         \/ InitFails \/ AdminExit \/ BroadcastShutdown \/ FreePool
         \/ \E p \in Producers : AddWait(p) \/ Add(p)
         \/ UNCHANGED dynVars
  PROVE  CInv'
<1>1. CASE InitFails \/ FreePool
  <2>1. owner' = "freed" /\ UNCHANGED <<wpc, counters, uncreated>>
    BY <1>1 DEF InitFails, FreePool
  <2>2. Base' /\ In({"run"})' = In({"run"})
    BY <2>1 DEF CInv, Base, counters, In
  <2> QED
    BY <2>1, <2>2 DEF CInv, CountersAgree, NeverTooFew, counters
<1>2. CASE AdminExit \/ UNCHANGED dynVars \/ \E p \in Producers : AddWait(p)
  <2>1. UNCHANGED <<owner, wpc, counters, uncreated>>
    BY <1>2 DEF AdminExit, dynVars, AddWait
  <2> QED
    BY <2>1 DEF CInv, Base, CountersAgree, NeverTooFew, counters, In, Alive
<1>3. CASE \E p \in Producers : Add(p)
  <2>1. UNCHANGED <<owner, counters, uncreated>> /\ wpc' \in WakeUp(1, wpc)
    BY <1>3 DEF Add
  <2>2. /\ wpc' \in [Places -> Labels]
        /\ \A w \in Places : wpc'[w] = wpc[w] \/ (wpc[w] = "wait" /\ wpc'[w] = "woken")
    BY <2>1, WakeUpOnlyWakes DEF CInv
  <2>3. Alive' = Alive /\ In({"run"})' = In({"run"}) /\ (owner = "init" => wpc'[MinFree] = "none")
    BY <2>1, <2>2, SameSets DEF CInv
  <2>4. Base'
    BY <2>1, <2>2, <2>3 DEF CInv, Base, counters
  <2> QED
    BY <2>1, <2>3, <2>4 DEF CInv, CountersAgree, NeverTooFew, counters
<1>4. CASE BroadcastShutdown
  <2>1. /\ wpc' \in [Places -> Labels]
        /\ \A w \in Places : wpc'[w] = wpc[w] \/ (wpc[w] = "wait" /\ wpc'[w] = "woken")
    BY <1>4, WakeUpOnlyWakes DEF CInv, BroadcastShutdown
  <2>2. owner' = "sleep" /\ closing' = TRUE /\ UNCHANGED <<live_threads, busy_threads, exit_threads, uncreated>>
    BY <1>4 DEF BroadcastShutdown
  <2>3. Base' /\ In({"run"})' = In({"run"})
    BY <2>1, <2>2 DEF CInv, Base, In
  <2> QED
    BY <2>2, <2>3 DEF CInv, CountersAgree, NeverTooFew
<1> QED
  BY <1>1, <1>2, <1>3, <1>4

LEMMA CNext == CInv /\ [DynNext]_dynVars => CInv'
  BY StepWorker, StepCreate, StepShrink, StepGrow, StepOthers DEF DynNext
-----------------------------------------------------------------------------
(* The numbers admin_job reads under mut_pool and mut_busy are the numbers *)
(* of live and of busy threads.                                            *)
THEOREM CountersAreRight == DynSpec => []CountersAgree
<1>1. CInv => CountersAgree
  BY DEF CInv
<1> QED
  BY CInit, CNext, <1>1, PTL DEF DynSpec

(* However requests to leave and growth mix, at least MIN_FREE_NR workers  *)
(* stay when every request has been dequeued up.                              *)
THEOREM EnoughStay == DynSpec => []NeverTooFew
<1>1. CInv => NeverTooFew
  BY DEF CInv
<1> QED
  BY CInit, CNext, <1>1, PTL DEF DynSpec
-----------------------------------------------------------------------------
(* The ring queue *)

(* What lies i places behind front, without the remainders. *)
Ring ==
  /\ s \in [RingSlots -> 0 .. MaxTasks] /\ front \in RingSlots /\ rear \in RingSlots
  /\ added \in Nat /\ dequeued \in Nat /\ dequeued <= added /\ added - dequeued <= QueueCap
  /\ rear = DynAt(front, added - dequeued)
  /\ s[front] = 0
  /\ \A i \in 1 .. QueueCap : s[DynAt(front, i)] = IF i <= added - dequeued THEN dequeued + i ELSE 0

(* A producer that was let in still has its task to add. *)
NotIdle == {p \in Producers : ppc[p] # "idle"}
TasksBounded ==
  /\ ppc \in [Producers -> {"idle", "full", "retry"}]
  /\ added \in Nat /\ added + Cardinality(NotIdle) <= MaxTasks

Others ==
  /\ admin \in {"loop", "exited"} /\ mytask \in [Places -> BOOLEAN] /\ stray \in 0 .. MaxStray
  /\ exit_threads <= Step /\ live_threads <= MaxThreads + Step

QInv == CInv /\ Ring /\ TasksBounded /\ Others

LEMMA QueueConstants ==
  /\ QueueCap \in Nat /\ 1 <= QueueCap /\ MaxTasks \in Nat /\ MaxStray \in Nat
  /\ Step \in Nat /\ 1 <= Step /\ IsFiniteSet(Producers)
  BY DynAssumption

LEMMA NextIndexWraps ==
  ASSUME NEW i \in RingSlots
  PROVE  NextIndex(i) = (IF i = QueueCap THEN 0 ELSE i + 1) /\ NextIndex(i) \in RingSlots
  BY QueueConstants DEF NextIndex, RingSlots

LEMMA AtFacts ==
  ASSUME NEW f \in RingSlots
  PROVE  /\ DynAt(f, 0) = f /\ DynAt(f, 1) = NextIndex(f)
         /\ \A i \in 0 .. QueueCap : DynAt(f, i) \in RingSlots
         /\ \A i, j \in 0 .. QueueCap : DynAt(f, i) = DynAt(f, j) => i = j
         /\ \A i \in 0 .. QueueCap - 1 : DynAt(NextIndex(f), i) = DynAt(f, i + 1) /\ NextIndex(DynAt(f, i)) = DynAt(f, i + 1)
         /\ DynAt(NextIndex(f), QueueCap) = f
<1>1. NextIndex(f) = (IF f = QueueCap THEN 0 ELSE f + 1)
  BY NextIndexWraps
<1>2. \A i \in 0 .. QueueCap : DynAt(f, i) \in RingSlots
  BY QueueConstants DEF DynAt, RingSlots
<1>3. \A i \in 0 .. QueueCap - 1 : NextIndex(DynAt(f, i)) = (IF DynAt(f, i) = QueueCap THEN 0 ELSE DynAt(f, i) + 1)
  BY <1>2, NextIndexWraps, QueueConstants
<1> QED
  BY <1>1, <1>2, <1>3, QueueConstants DEF DynAt, RingSlots

LEMMA RingIsFifo ==
  ASSUME Ring, DynTypeOK
  PROVE  QueueIsFifo
<1>1. ASSUME NEW i \in 1 .. QueueCap + 1
      PROVE  s[DynAt(front, i % (QueueCap + 1))] = IF i <= added - dequeued THEN dequeued + i ELSE 0
  <2>1. CASE i = QueueCap + 1
    <3>1. i % (QueueCap + 1) = 0
      BY <2>1, QueueConstants
    <3> QED
      BY <2>1, <3>1, AtFacts, QueueConstants DEF Ring
  <2>2. CASE i # QueueCap + 1
    <3>1. i % (QueueCap + 1) = i /\ i \in 1 .. QueueCap
      BY <2>2, QueueConstants
    <3> QED
      BY <3>1 DEF Ring
  <2> QED
    BY <2>1, <2>2
<1> QED
  BY <1>1 DEF Ring, QueueIsFifo

LEMMA FullWhenCap ==
  ASSUME Ring
  PROVE  /\ queue_is_full <=> added - dequeued = QueueCap
         /\ queue_is_empty <=> added - dequeued = 0
<1>1. added - dequeued \in 0 .. QueueCap
  BY QueueConstants DEF Ring
<1>2. CASE added - dequeued = QueueCap
  <2>1. NextIndex(rear) = front
    <3>1. front \in RingSlots /\ rear \in RingSlots /\ rear = DynAt(front, QueueCap)
      BY <1>2 DEF Ring
    <3>2. rear = IF front = 0 THEN QueueCap ELSE front - 1
      BY <3>1, QueueConstants DEF DynAt, RingSlots
    <3>3. NextIndex(rear) = (IF rear = QueueCap THEN 0 ELSE rear + 1)
      BY <3>1, NextIndexWraps
    <3> QED
      BY <3>1, <3>2, <3>3, QueueConstants DEF RingSlots
  <2>2. front # rear
    BY <1>2, AtFacts, QueueConstants DEF Ring
  <2> QED
    BY <1>2, <2>1, <2>2, QueueConstants DEF queue_is_full, queue_is_empty
<1>3. CASE added - dequeued # QueueCap
  <2>1. NextIndex(rear) = DynAt(front, (added - dequeued) + 1)
    BY <1>1, <1>3, AtFacts, QueueConstants DEF Ring
  <2>2. NextIndex(rear) # front
    <3>1. (added - dequeued) + 1 \in 0 .. QueueCap /\ 0 \in 0 .. QueueCap /\ (added - dequeued) + 1 # 0
      BY <1>1, <1>3, QueueConstants
    <3> QED
      BY <2>1, <3>1, AtFacts DEF Ring
  <2>3. front = rear <=> added - dequeued = 0
    BY <1>1, AtFacts, QueueConstants DEF Ring
  <2> QED
    BY <1>3, <2>2, <2>3 DEF queue_is_full, queue_is_empty
<1> QED
  BY <1>2, <1>3

LEMMA EnqueueKeepsRing ==
  ASSUME Ring, ~queue_is_full, queue_en, added < MaxTasks
  PROVE  Ring'
<1> DEFINE d == added - dequeued
<1>1. d \in 0 .. QueueCap - 1 /\ added \in Nat /\ dequeued \in Nat /\ added = dequeued + d
  BY FullWhenCap, QueueConstants DEF Ring
<1>2. NextIndex(rear) = DynAt(front, d + 1) /\ DynAt(front, d + 1) \in RingSlots
  BY <1>1, AtFacts, QueueConstants DEF Ring
<1> HIDE DEF d
<1>3. /\ rear' = DynAt(front, d + 1) /\ s' = [s EXCEPT ![DynAt(front, d + 1)] = added + 1]
      /\ added' = added + 1 /\ front' = front /\ dequeued' = dequeued
  BY <1>2 DEF queue_en
<1>4. added' - dequeued' = d + 1 /\ added' \in Nat /\ dequeued' <= added' /\ d + 1 <= QueueCap
  BY <1>1, <1>3, QueueConstants
<1>5. s' \in [RingSlots -> 0 .. MaxTasks]
  <2>1. added + 1 \in 0 .. MaxTasks
    BY <1>1, QueueConstants
  <2> QED
    BY <1>2, <1>3, <2>1 DEF Ring
<1>6. s'[front] = 0
  <2>1. DynAt(front, d + 1) # front
    BY <1>1, AtFacts, QueueConstants DEF Ring
  <2> QED
    BY <1>3, <2>1 DEF Ring
<1>7. \A i \in 1 .. QueueCap : s'[DynAt(front, i)] = IF i <= d + 1 THEN dequeued + i ELSE 0
  <2> TAKE i \in 1 .. QueueCap
  <2>1. CASE i = d + 1
    BY <1>1, <1>2, <1>3, <2>1 DEF Ring
  <2>2. CASE i # d + 1
    <3>1. DynAt(front, i) \in RingSlots /\ DynAt(front, i) # DynAt(front, d + 1)
      BY <1>1, <2>2, AtFacts, QueueConstants DEF Ring
    <3>2. s[DynAt(front, i)] = IF i <= d THEN dequeued + i ELSE 0
      BY DEF Ring, d
    <3>3. i <= d + 1 <=> i <= d
      BY <1>1, <2>2
    <3> QED
      BY <1>3, <3>1, <3>2, <3>3 DEF Ring
  <2> QED
    BY <2>1, <2>2
<1>8. \A i : DynAt(front, i)' = DynAt(front, i)
  BY <1>3 DEF DynAt
<1>9. rear' \in RingSlots /\ front' \in RingSlots
  BY <1>2, <1>3 DEF Ring
<1> QED
  BY <1>1, <1>3, <1>4, <1>5, <1>6, <1>7, <1>8, <1>9 DEF Ring, DynAt

LEMMA DequeueKeepsRing ==
  ASSUME Ring, NEW w, queue_de(w)
  PROVE  Ring'
<1> DEFINE d == added - dequeued
           f == NextIndex(front)
<1>1. CASE queue_is_empty
  BY <1>1 DEF Ring, queue_de, queueVars, DynAt
<1>2. CASE ~queue_is_empty
  <2>1. d \in 1 .. QueueCap /\ added \in Nat /\ dequeued \in Nat /\ added = dequeued + d
    BY <1>2, FullWhenCap, QueueConstants DEF Ring
  <2>2. f = DynAt(front, 1) /\ f \in RingSlots /\ f # front /\ front \in RingSlots
    BY AtFacts, QueueConstants DEF Ring
  <2>3. /\ front' = f /\ s' = [s EXCEPT ![f] = 0] /\ dequeued' = dequeued + 1 /\ rear' = rear /\ added' = added
    BY <1>2 DEF queue_de
  <2>4. \A i \in 0 .. QueueCap - 1 : DynAt(f, i) = DynAt(front, i + 1)
    BY AtFacts, QueueConstants DEF Ring
  <2>5. DynAt(f, QueueCap) = front
    BY AtFacts DEF Ring
  <2> HIDE DEF d, f
  <2>6. added' - dequeued' = d - 1 /\ dequeued' \in Nat /\ dequeued' <= added' /\ d - 1 <= QueueCap /\ d - 1 \in 0 .. QueueCap - 1
    BY <2>1, <2>3, QueueConstants
  <2>7. rear' = DynAt(f, d - 1)
    <3>1. DynAt(f, d - 1) = DynAt(front, (d - 1) + 1)
      BY <2>4, <2>6
    <3> QED
      BY <2>1, <2>3, <3>1 DEF Ring, d
  <2>8. s' \in [RingSlots -> 0 .. MaxTasks] /\ s'[f] = 0 /\ \A i \in RingSlots : i # f => s'[i] = s[i]
    BY <2>2, <2>3, QueueConstants DEF Ring
  <2>9. \A i \in 1 .. QueueCap : s'[DynAt(f, i)] = IF i <= d - 1 THEN (dequeued + 1) + i ELSE 0
    <3> TAKE i \in 1 .. QueueCap
    <3>1. CASE i = QueueCap
      BY <2>1, <2>2, <2>5, <2>8, <3>1 DEF Ring
    <3>2. CASE i # QueueCap
      <4>1. i \in 0 .. QueueCap - 1 /\ i + 1 \in 1 .. QueueCap /\ i + 1 \in 0 .. QueueCap
        BY <3>2, QueueConstants
      <4>2. DynAt(f, i) = DynAt(front, i + 1) /\ DynAt(front, i + 1) \in RingSlots /\ DynAt(front, i + 1) # DynAt(front, 1)
        <5>1. i + 1 # 1 /\ 1 \in 0 .. QueueCap
          BY QueueConstants
        <5>2. \A a, b \in 0 .. QueueCap : DynAt(front, a) \in RingSlots /\ (DynAt(front, a) = DynAt(front, b) => a = b)
          BY AtFacts DEF Ring
        <5> QED
          BY <2>4, <4>1, <5>1, <5>2
      <4>3. s[DynAt(front, i + 1)] = IF i + 1 <= d THEN dequeued + (i + 1) ELSE 0
        BY <4>1 DEF Ring, d
      <4>4. s'[DynAt(f, i)] = IF i + 1 <= d THEN dequeued + (i + 1) ELSE 0
        BY <2>2, <2>8, <4>2, <4>3
      <4>5. (i + 1 <= d <=> i <= d - 1) /\ dequeued + (i + 1) = (dequeued + 1) + i
        BY <2>1, <4>1, QueueConstants
      <4> QED
        BY <4>4, <4>5
    <3> QED
      BY <3>1, <3>2
  <2> QED
    BY <2>1, <2>2, <2>3, <2>6, <2>7, <2>8, <2>9 DEF Ring, DynAt
<1> QED
  BY <1>1, <1>2

LEMMA ProducersFinite ==
  ASSUME NEW S, S \subseteq Producers
  PROVE  IsFiniteSet(S) /\ Cardinality(S) \in Nat
  BY QueueConstants, FS_Subset, FS_CardinalityType

LEMMA QInit == DynInit => QInv
<1> SUFFICES ASSUME DynInit PROVE QInv
  OBVIOUS
<1>1. Ring
  <2>1. 0 \in RingSlots /\ \A i \in 1 .. QueueCap : DynAt(0, i) \in RingSlots
    BY AtFacts, QueueConstants DEF RingSlots
  <2> QED
    BY <2>1, QueueConstants DEF DynInit, Ring, DynAt
<1>2. NotIdle = {}
  BY DEF DynInit, NotIdle
<1>3. TasksBounded
  BY <1>2, FS_EmptySet, QueueConstants DEF DynInit, TasksBounded
<1>4. Others
  BY QueueConstants, Constants DEF DynInit, Others
<1> QED
  BY <1>1, <1>3, <1>4, CInit DEF QInv

(* Steps of workers, admin and owner that do not touch the queue. *)
LEMMA QPlainStep ==
  ASSUME QInv, CInv', UNCHANGED <<queueVars, ppc>>, Others'
  PROVE  QInv'
  BY DEF QInv, Ring, DynAt, TasksBounded, NotIdle, queueVars

LEMMA QWorkerStep ==
  ASSUME QInv, CInv', NEW w \in Places, worker_job(w) \/ WakeSpuriously(w)
  PROVE  QInv'
<1>1. CASE Dequeue(w)
  <2>1. Ring'
    BY <1>1, DequeueKeepsRing DEF QInv, Dequeue
  <2>2. ppc' \in [Producers -> {"idle", "full", "retry"}] /\ NotIdle' = NotIdle /\ added' = added
    BY <1>1 DEF QInv, TasksBounded, NotIdle, Dequeue, SignalNotFull, queue_de, queueVars
  <2>3. mytask' \in [Places -> BOOLEAN]
    BY <1>1 DEF QInv, Others, Dequeue, queue_de
  <2>4. UNCHANGED <<owner, admin, counters, stray>>
    BY <1>1 DEF Dequeue
  <2> QED
    BY <2>1, <2>2, <2>3, <2>4 DEF QInv, TasksBounded, Others, counters
<1>2. CASE WaitForTask(w) \/ WorkerShutdown(w) \/ BusyBegin(w) \/ BusyEnd(w) \/ WakeSpuriously(w)
  <2>1. UNCHANGED <<queueVars, ppc, owner, admin, live_threads, exit_threads, closing>>
    BY <1>2 DEF WaitForTask, WorkerShutdown, BusyBegin, BusyEnd, WakeSpuriously, counters
  <2>2. mytask' \in [Places -> BOOLEAN]
    BY <1>2 DEF QInv, Others, WaitForTask, WorkerShutdown, BusyBegin, BusyEnd, WakeSpuriously
  <2>3. stray' \in 0 .. MaxStray
    BY <1>2, QueueConstants DEF QInv, Others, WaitForTask, WorkerShutdown, BusyBegin, BusyEnd, WakeSpuriously
  <2> QED
    BY <2>1, <2>2, <2>3, QPlainStep DEF QInv, Others
<1>3. CASE Retire(w)
  <2>1. /\ UNCHANGED <<queueVars, ppc, owner, admin, closing, mytask, stray>>
        /\ exit_threads' = exit_threads - 1 /\ live_threads' = live_threads - 1
    BY <1>3 DEF Retire
  <2>2. exit_threads' <= Step /\ live_threads' <= MaxThreads + Step
    BY <2>1, QueueConstants, Constants DEF QInv, CInv, Base, Others
  <2> QED
    BY <2>1, <2>2, QPlainStep DEF QInv, Others
<1> QED
  BY <1>1, <1>2, <1>3 DEF worker_job

LEMMA QAdminStep ==
  ASSUME QInv, CInv',
         \/ CreateFirstWorkers \/ InitFails \/ AdminShrink \/ AdminGrow \/ AdminExit \/ BroadcastShutdown \/ FreePool
         \/ UNCHANGED dynVars
  PROVE  QInv'
<1>1. UNCHANGED <<queueVars, ppc, mytask, stray>> /\ admin' \in {"loop", "exited"}
  BY DEF QInv, Others, CreateFirstWorkers, InitFails, AdminShrink, AdminGrow, AdminExit, BroadcastShutdown, FreePool, dynVars
<1>2. exit_threads' <= Step
  BY QueueConstants
  DEF QInv, Others, CreateFirstWorkers, InitFails, AdminShrink, AdminGrow, AdminExit, BroadcastShutdown, FreePool, dynVars,
      counters
<1>3. live_threads' <= MaxThreads + Step
  <2>1. CASE AdminGrow
    <3>1. PICK new \in SUBSET In({"none", "exited"}), lost \in SUBSET In({"none"}), failed \in 0 .. Step :
             /\ Found(new, lost, failed) /\ live_threads < MaxThreads
             /\ live_threads' = live_threads + Cardinality(new) + failed
      BY <2>1 DEF AdminGrow
    <3>2. Cardinality(new) \in Nat /\ Cardinality(new) + failed <= Step
      BY <3>1, SetsOfWorkers, WorkersFinite DEF Found
    <3> QED
      BY <3>1, <3>2, Constants DEF QInv, CInv, Base
  <2>2. CASE ~AdminGrow
    <3>1. live_threads' = live_threads
      BY <2>2
      DEF CreateFirstWorkers, InitFails, AdminShrink, AdminExit, BroadcastShutdown, FreePool, dynVars, counters
    <3> QED
      BY <3>1 DEF QInv, Others
  <2> QED
    BY <2>1, <2>2
<1> QED
  BY <1>1, <1>2, <1>3, QPlainStep DEF QInv, Others

(* A producer is let in only while its task stays within the bound. *)
LEMMA QProducerStep ==
  ASSUME QInv, CInv', NEW p \in Producers, AddWait(p) \/ Add(p)
  PROVE  QInv'
<1>0. /\ ppc \in [Producers -> {"idle", "full", "retry"}] /\ added \in Nat
      /\ IsFiniteSet(NotIdle) /\ Cardinality(NotIdle) \in Nat /\ added + Cardinality(NotIdle) <= MaxTasks
  BY ProducersFinite DEF QInv, TasksBounded, NotIdle
<1>1. CASE ppc[p] = "idle"
  <2>1. p \notin NotIdle /\ added + Cardinality(NotIdle) < MaxTasks
    BY <1>1 DEF NotIdle, AddWait, Add, MayAdd
  <2>2. CASE AddWait(p)
    <3>1. NotIdle' = NotIdle \cup {p} /\ ppc' \in [Producers -> {"idle", "full", "retry"}]
      BY <1>0, <2>2 DEF AddWait, NotIdle
    <3>2. Cardinality(NotIdle') = Cardinality(NotIdle) + 1
      BY <1>0, <2>1, <3>1, FS_AddElement
    <3>3. UNCHANGED <<owner, admin, queueVars, counters, mytask, stray>>
      BY <2>2 DEF AddWait
    <3>4. TasksBounded'
      BY <1>0, <2>1, <3>1, <3>2, <3>3, QueueConstants DEF TasksBounded, queueVars
    <3> QED
      BY <3>3, <3>4 DEF QInv, Ring, DynAt, Others, queueVars, counters
  <2>3. CASE Add(p)
    <3>1. NotIdle' = NotIdle /\ ppc' \in [Producers -> {"idle", "full", "retry"}] /\ added' = added + 1
      BY <1>0, <1>1, <2>3 DEF Add, NotIdle, queue_en
    <3>2. TasksBounded' /\ added < MaxTasks
      BY <1>0, <2>1, <3>1, QueueConstants DEF TasksBounded
    <3>3. Ring' /\ UNCHANGED <<owner, admin, counters, mytask, stray>>
      BY <2>3, <3>2, EnqueueKeepsRing DEF Add, QInv
    <3> QED
      BY <3>2, <3>3 DEF QInv, Others, counters
  <2> QED
    BY <2>2, <2>3
<1>2. CASE ppc[p] # "idle"
  <2>1. p \in NotIdle /\ Cardinality(NotIdle) >= 1
    <3>1. p \in NotIdle
      BY <1>2 DEF NotIdle
    <3>2. Cardinality(NotIdle) # 0
      BY <1>0, <3>1, FS_EmptySet
    <3> QED
      BY <1>0, <3>1, <3>2
  <2>2. CASE AddWait(p)
    <3>1. NotIdle' = NotIdle /\ ppc' \in [Producers -> {"idle", "full", "retry"}]
      BY <1>0, <1>2, <2>2 DEF AddWait, NotIdle
    <3>2. UNCHANGED <<owner, admin, queueVars, counters, mytask, stray>>
      BY <2>2 DEF AddWait
    <3> QED
      BY <1>0, <3>1, <3>2 DEF QInv, Ring, DynAt, TasksBounded, Others, queueVars, counters
  <2>3. CASE Add(p)
    <3>1. NotIdle' = NotIdle \ {p} /\ ppc' \in [Producers -> {"idle", "full", "retry"}] /\ added' = added + 1
      BY <1>0, <2>3 DEF Add, NotIdle, queue_en
    <3>2. Cardinality(NotIdle') = Cardinality(NotIdle) - 1
      BY <1>0, <2>1, <3>1, FS_RemoveElement
    <3>3. TasksBounded' /\ added < MaxTasks
      BY <1>0, <2>1, <3>1, <3>2, QueueConstants DEF TasksBounded
    <3>4. Ring' /\ UNCHANGED <<owner, admin, counters, mytask, stray>>
      BY <2>3, <3>3, EnqueueKeepsRing DEF Add, QInv
    <3> QED
      BY <3>3, <3>4 DEF QInv, Others, counters
  <2> QED
    BY <2>2, <2>3
<1> QED
  BY <1>1, <1>2

LEMMA QNext == QInv /\ [DynNext]_dynVars => QInv'
<1> SUFFICES ASSUME QInv, [DynNext]_dynVars PROVE QInv'
  OBVIOUS
<1>1. CInv'
  BY CNext DEF QInv
<1>2. CASE UNCHANGED dynVars
  BY <1>1, <1>2, QPlainStep DEF dynVars, QInv, Others, counters
<1>3. CASE InUse /\ ~UNCHANGED dynVars
  BY <1>1, <1>3, QWorkerStep, QAdminStep, QProducerStep DEF DynNext
<1> QED
  BY <1>2, <1>3 DEF DynNext

LEMMA QInvFifo == QInv => QueueIsFifo
<1> SUFFICES ASSUME QInv PROVE QueueIsFifo
  OBVIOUS
<1>1. busy_threads \in 0 .. MaxThreads
  <2>1. Cardinality(In({"run"})) \in Nat /\ Cardinality(In({"run"})) <= MaxThreads
    BY SetsOfWorkers, WorkersFinite
  <2> QED
    BY <2>1, Constants DEF QInv, CInv, CountersAgree
<1>2. live_threads \in 1 .. MaxThreads + Step /\ exit_threads \in 0 .. Step
  BY Constants, QueueConstants DEF QInv, CInv, Base, NeverTooFew, Others, Places
<1>3. added \in 0 .. MaxTasks /\ dequeued \in 0 .. MaxTasks
  <2>1. Cardinality(NotIdle) \in Nat
    BY ProducersFinite DEF NotIdle
  <2> QED
    BY <2>1, QueueConstants DEF QInv, Ring, TasksBounded
<1>4. DynTypeOK
  BY <1>1, <1>2, <1>3 DEF QInv, CInv, Base, Labels, Ring, TasksBounded, Others, DynTypeOK
<1> QED
  BY <1>4, RingIsFifo DEF QInv

(* For every capacity, any number of producers and of workers that come    *)
(* and go: the ring holds the tasks added and not yet dequeued, in order, and *)
(* nothing else.                                                           *)
THEOREM TasksAreFifo == DynSpec => []QueueIsFifo
  BY QInit, QNext, QInvFifo, PTL DEF DynSpec
=============================================================================
