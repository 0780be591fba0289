--------------------------- MODULE PipelineProofs ---------------------------
(***************************************************************************)
(* The two pipelines, for any number of producers and processors, any ring *)
(* and batch length and any input: nothing is lost or doubled on the way   *)
(* from where it is put in to where it comes out.                          *)
(***************************************************************************)
EXTENDS DataQueue, LogPipeline, FiniteSetTheorems, FunctionTheorems, SequenceTheorems, TLAPS

(* The reading queue of the gateway. *)

(* What the place of the consumer says of its lock and its batch. *)
Consumer ==
  /\ held <=> cpc \in {"first", "more"}
  /\ cpc \in {"lock", "first"} => batch = << >>
  /\ cpc \in {"more", "send"} => Len(batch) > 0
  /\ uploaded <= dequeued /\ failed <= dequeued

Inv ==
  /\ TypeOK /\ Consumer
  /\ TokensMatchReadings /\ RingIsFifo /\ BatchIsConsecutive /\ UploadedInOrder
-----------------------------------------------------------------------------
LEMMA NextSlotWraps ==
  ASSUME NEW i \in Slots
  PROVE  NextSlot(i) = (IF i + 1 = N THEN 0 ELSE i + 1) /\ NextSlot(i) \in Slots
  BY QueueAssumption DEF NextSlot, Slots

(* Seen from the slot after t, everything is one place nearer. *)
LEMMA AtNextSlot ==
  ASSUME NEW t \in Slots, NEW i \in 0 .. N - 1
  PROVE  At(NextSlot(t), i) = At(t, i + 1) /\ At(t, i) \in Slots /\ At(t, 0) = t
  BY NextSlotWraps, QueueAssumption DEF At, Slots

LEMMA PostingFinite == IsFiniteSet(Posting) /\ Cardinality(Posting) \in Nat
  BY QueueAssumption, FS_Subset, FS_CardinalityType DEF Posting

LEMMA InitInv == Init => Inv
<1> SUFFICES ASSUME Init PROVE Inv
  OBVIOUS
<1> USE QueueAssumption DEF Init
<1>1. TypeOK
  <2>1. 0 \in Slots /\ queue \in [Slots -> Nat]
    BY DEF Slots
  <2>2. pc \in [Producers -> {"idle", "push", "post", "update"}]
    OBVIOUS
  <2>3. sensor \in [Producers -> Sensors]
    BY DEF Sensors
  <2>4. held \in BOOLEAN
    OBVIOUS
  <2>5. batch \in Seq(Nat) /\ Len(batch) <= MaxBatch
    OBVIOUS
  <2> QED
    BY <2>1, <2>2, <2>3, <2>4, <2>5 DEF TypeOK
<1>2. Posting = {}
  BY DEF Posting
<1>3. TokensMatchReadings
  BY <1>2, FS_EmptySet DEF TokensMatchReadings, Claim, Occupancy
<1>4. RingIsFifo /\ Consumer /\ BatchIsConsecutive /\ UploadedInOrder
  BY DEF RingIsFifo, Consumer, BatchIsConsecutive, UploadedInOrder, Occupancy, At
<1> QED
  BY <1>1, <1>3, <1>4 DEF Inv
-----------------------------------------------------------------------------
(* A step that leaves ring, counters and consumer alone keeps their facts. *)
LEMMA ConsumerUntouched ==
  ASSUME Consumer, BatchIsConsecutive, UploadedInOrder, UNCHANGED consVars
  PROVE  Consumer' /\ BatchIsConsecutive' /\ UploadedInOrder'
  BY DEF Consumer, BatchIsConsecutive, UploadedInOrder, consVars

LEMMA RingUntouched ==
  ASSUME RingIsFifo, UNCHANGED <<ringVars, pushed, dequeued>>
  PROVE  RingIsFifo'
  BY DEF RingIsFifo, At, Occupancy, ringVars

(* The steps of a producer that neither push nor post. *)
LEMMA QuietProducerInv ==
  ASSUME Inv, TypeOK', UNCHANGED <<sem, ringVars, pushed, consVars>>, Posting' = Posting
  PROVE  Inv'
<1>1. RingIsFifo'
  BY RingUntouched DEF Inv, consVars
<1>2. TokensMatchReadings'
  BY DEF Inv, TokensMatchReadings, Claim, Occupancy, consVars
<1> QED
  BY <1>1, <1>2, ConsumerUntouched DEF Inv

LEMMA ParseInv == ASSUME Inv, NEW p \in Producers, Parse(p) PROVE Inv'
<1>1. TypeOK'
  <2>1. /\ sensor' \in [Producers -> Sensors]
        /\ pc' \in [Producers -> {"idle", "push", "post", "update"}]
    BY DEF Inv, Parse, TypeOK, Sensors
  <2>2. packets' \in 0 .. MaxPackets
    BY QueueAssumption DEF Inv, Parse, TypeOK
  <2> QED
    BY <2>1, <2>2 DEF Inv, Parse, TypeOK, ringVars, consVars
<1>2. Posting' = Posting
  BY DEF Inv, Parse, TypeOK, Posting
<1> QED
  BY <1>1, <1>2, QuietProducerInv DEF Parse

LEMMA DropInv == ASSUME Inv, NEW p \in Producers, Drop(p) PROVE Inv'
<1>1. TypeOK' /\ Posting' = Posting
  BY DEF Inv, Drop, Continue, TypeOK, Posting, Sensors, ringVars, consVars
<1> QED
  BY <1>1, QuietProducerInv DEF Drop

LEMMA UpdateInv == ASSUME Inv, NEW p \in Producers, Update(p) PROVE Inv'
<1>1. TypeOK'
  BY DEF Inv, Update, Continue, TypeOK, Sensors, ringVars, consVars
<1>2. Posting' = Posting
  BY DEF Inv, Update, Continue, TypeOK, Posting
<1> QED
  BY <1>1, <1>2, QuietProducerInv DEF Update

LEMMA PostInv == ASSUME Inv, NEW p \in Producers, Post(p) PROVE Inv'
<1>1. TypeOK'
  BY DEF Inv, Post, TypeOK, ringVars, consVars
<1>2. Posting' = Posting \ {p} /\ p \in Posting
  BY DEF Inv, Post, TypeOK, Posting
<1>3. Cardinality(Posting') = Cardinality(Posting) - 1
  BY <1>2, PostingFinite, FS_RemoveElement
<1>4. TokensMatchReadings'
  BY <1>3, PostingFinite DEF Inv, Post, TokensMatchReadings, Claim, Occupancy, TypeOK, consVars
<1>5. RingIsFifo'
  BY RingUntouched DEF Inv, Post, consVars
<1> QED
  BY <1>1, <1>4, <1>5, ConsumerUntouched DEF Inv, Post

(* The tail of the push is the free slot next_head # queue_tail leaves. *)
LEMMA PushInv == ASSUME Inv, NEW p \in Producers, Push(p) PROVE Inv'
<1> USE QueueAssumption DEF Inv
<1>0. NextSlot(head) = (IF head + 1 = N THEN 0 ELSE head + 1) /\ NextSlot(head) \in Slots
  BY NextSlotWraps DEF TypeOK
<1>1. TypeOK'
  BY <1>0 DEF Push, TypeOK, consVars
<1>2. Posting' = Posting \cup {p} /\ p \notin Posting
  BY DEF Push, TypeOK, Posting
<1>3. Cardinality(Posting') = Cardinality(Posting) + 1
  BY <1>2, PostingFinite, FS_AddElement
<1>4. TokensMatchReadings'
  <2>1. Claim' = Claim /\ Claim \in Nat /\ sem' = sem /\ sem \in Nat
    BY DEF Push, Claim, TypeOK, consVars
  <2>2. Occupancy' = Occupancy + 1 /\ Occupancy \in Nat
    BY DEF Push, Occupancy, TypeOK, RingIsFifo, consVars
  <2> QED
    BY <1>3, <2>1, <2>2, PostingFinite DEF TokensMatchReadings
<1>5. RingIsFifo'
  <2> DEFINE occ == Occupancy
  <2>0. occ \in Nat /\ occ' = occ + 1 /\ occ < N
    BY DEF Push, RingIsFifo, Occupancy, TypeOK, consVars
  <2>1. At(tail, occ) = head
    BY DEF RingIsFifo
  <2>2. occ + 1 < N
    BY <1>0, <2>0, <2>1 DEF Push, Full, At, TypeOK, Slots
  <2>3. head' = At(tail, occ + 1)
    BY <1>0, <2>0, <2>1, <2>2 DEF Push, At, TypeOK, Slots
  <2>4. \A i \in 0 .. occ - 1 : At(tail, i) \in Slots /\ At(tail, i) # head
    BY <2>0, <2>1 DEF At, TypeOK, Slots
  <2>5. \A i \in 0 .. occ : queue'[At(tail, i)] = dequeued + 1 + i
    <3> TAKE i \in 0 .. occ
    <3>1. CASE i = occ
      BY <2>1, <3>1 DEF Push, Occupancy, TypeOK, RingIsFifo
    <3>2. CASE i # occ
      <4>1. i \in 0 .. occ - 1
        BY <2>0, <3>2
      <4>2. queue'[At(tail, i)] = queue[At(tail, i)]
        BY <2>4, <4>1 DEF Push, TypeOK
      <4> QED
        BY <4>1, <4>2 DEF RingIsFifo
    <3> QED
      BY <3>1, <3>2
  <2>6. occ' - 1 = occ /\ tail' = tail /\ dequeued' = dequeued /\ dequeued' <= pushed'
    BY <2>0 DEF Push, RingIsFifo, TypeOK, consVars
  <2> HIDE DEF occ
  <2>7. Occupancy' = occ'
    BY DEF occ
  <2> QED
    BY <2>0, <2>2, <2>3, <2>5, <2>6, <2>7 DEF RingIsFifo, At
<1> QED
  BY <1>1, <1>4, <1>5, ConsumerUntouched DEF Push
-----------------------------------------------------------------------------
(* The steps of the consumer that do not take from the ring. *)
LEMMA SemWaitInv == ASSUME Inv, SemWait PROVE Inv'
<1>1. TypeOK'
  BY QueueAssumption DEF Inv, SemWait, TypeOK, ringVars, prodVars
<1>2. Posting' = Posting
  BY DEF SemWait, prodVars, Posting
<1>3. TokensMatchReadings'
  BY <1>2, PostingFinite DEF Inv, SemWait, TokensMatchReadings, Claim, Occupancy, TypeOK, prodVars
<1>4. RingIsFifo'
  BY RingUntouched DEF Inv, SemWait, prodVars
<1>5. Consumer' /\ UploadedInOrder' /\ BatchIsConsecutive'
  BY DEF Inv, SemWait, Consumer, UploadedInOrder, BatchIsConsecutive, TypeOK
<1> QED
  BY <1>1, <1>3, <1>4, <1>5 DEF Inv

LEMMA QuietConsumerInv ==
  ASSUME Inv, Lock \/ Unlock \/ ConnectFails \/ Connected \/ CheckEmpty \/ Sleep
  PROVE  Inv'
<1> USE DEF Inv, Lock, Unlock, ConnectFails, Connected, CheckEmpty, Sleep
<1>1. cpc = "send" => Last(batch) = dequeued
  BY DEF Consumer, BatchIsConsecutive, Last, TypeOK
<1>2. TypeOK'
  BY <1>1 DEF TypeOK, ringVars, prodVars
<1>3. Posting' = Posting
  BY DEF prodVars, Posting
<1>4. TokensMatchReadings'
  BY <1>3, PostingFinite DEF TokensMatchReadings, Claim, Occupancy, TypeOK, prodVars
<1>5. RingIsFifo'
  BY RingUntouched DEF prodVars
<1>6. Consumer' /\ UploadedInOrder' /\ BatchIsConsecutive'
  BY <1>1, SMTT(20) DEF Consumer, UploadedInOrder, BatchIsConsecutive, TypeOK
<1> QED
  BY <1>2, <1>4, <1>5, <1>6

(* A token taken guarantees a reading: the ring is not empty. *)
LEMMA TakeInv ==
  ASSUME Inv, Take, TakeFirst \/ TakeMore
  PROVE  Inv'
<1> USE QueueAssumption DEF Inv
<1>0. /\ Occupancy \in Nat /\ Occupancy > 0
      /\ Posting' = Posting /\ pushed' = pushed /\ Occupancy' = Occupancy - 1
  <2>1. UNCHANGED <<pc, pushed>> /\ dequeued' = dequeued + 1
    BY DEF TakeFirst, TakeMore, Take, prodVars
  <2>2. Posting' = Posting
    BY <2>1 DEF Posting
  <2>3. sem > 0 \/ Claim = 1
    BY DEF TakeFirst, TakeMore, Claim
  <2>4. sem \in Nat /\ Claim \in {0, 1} /\ pushed \in Nat /\ dequeued \in Nat
    BY DEF TypeOK, Claim
  <2>5. Cardinality(Posting) \in Nat
    BY PostingFinite
  <2>6. Occupancy \in Nat /\ Occupancy > 0
    BY <2>3, <2>4, <2>5 DEF TokensMatchReadings
  <2> QED
    BY <2>1, <2>2, <2>4, <2>6 DEF Occupancy
<1>1. /\ NextSlot(tail) = (IF tail + 1 = N THEN 0 ELSE tail + 1)
      /\ NextSlot(tail) \in Slots
  BY NextSlotWraps DEF TypeOK
<1>2. queue[tail] = dequeued + 1
  <2>1. 0 \in 0 .. Occupancy - 1 /\ At(tail, 0) = tail
    BY <1>0 DEF At, TypeOK, Slots
  <2> QED
    BY <2>1 DEF RingIsFifo, TypeOK
<1>3. batch' = Append(batch, dequeued + 1) /\ dequeued' = dequeued + 1
  BY <1>2 DEF Take
<1>4. TypeOK'
  <2>1. Len(batch) < MaxBatch
    BY DEF TakeFirst, TakeMore, Consumer, TypeOK
  <2>2. batch' \in Seq(Nat) /\ Len(batch') = Len(batch) + 1
    BY <1>3 DEF TypeOK
  <2>3. sem' \in Nat /\ cpc' = "more"
    BY DEF TakeFirst, TakeMore, TypeOK
  <2>4. UNCHANGED <<prodVars, held, failed, uploaded, queue, head>> /\ tail' = NextSlot(tail)
    BY DEF TakeFirst, TakeMore, Take
  <2> QED
    BY <1>1, <1>3, <2>1, <2>2, <2>3, <2>4 DEF TypeOK, prodVars
<1>5. TokensMatchReadings'
  <2>1. \/ Claim = 1 /\ Claim' = 0 /\ sem' = sem
        \/ Claim = 0 /\ Claim' = 0 /\ sem' = sem - 1
    BY DEF TakeFirst, TakeMore, Claim
  <2>2. sem + Cardinality(Posting) + Claim = Occupancy
    BY DEF TokensMatchReadings
  <2>3. sem' + Cardinality(Posting') + Claim' = Occupancy'
    BY <1>0, <2>1, <2>2, PostingFinite DEF TypeOK
  <2> QED
    BY <2>3 DEF TokensMatchReadings
<1>6. RingIsFifo'
  <2>1. \A i \in 0 .. Occupancy - 1 : At(tail', i) = At(tail, i + 1)
    BY <1>0, AtNextSlot DEF Take, TypeOK, RingIsFifo
  <2>2. \A i \in 0 .. Occupancy' - 1 : queue'[At(tail', i)] = dequeued' + 1 + i
    <3> TAKE i \in 0 .. Occupancy' - 1
    <3>1. i + 1 \in 0 .. Occupancy - 1 /\ i \in 0 .. Occupancy - 1
      BY <1>0
    <3>2. queue[At(tail, i + 1)] = dequeued + 1 + (i + 1)
      BY <3>1 DEF RingIsFifo
    <3> QED
      BY <1>3, <2>1, <3>1, <3>2 DEF Take, TypeOK
  <2>3. head' = At(tail', Occupancy')
    BY <1>0, <2>1 DEF RingIsFifo, Take
  <2>4. dequeued' <= pushed' /\ Occupancy' < N
    BY <1>0, <1>3 DEF RingIsFifo, Occupancy, TypeOK
  <2> QED
    BY <2>2, <2>3, <2>4 DEF RingIsFifo, At
<1>7. BatchIsConsecutive'
  BY <1>3 DEF BatchIsConsecutive, TypeOK
<1>8. batch'[1] > uploaded /\ batch'[1] > failed
  <2>1. CASE batch = << >>
    BY <1>3, <2>1 DEF Consumer, TypeOK
  <2>2. CASE batch # << >>
    BY <1>3, <2>2 DEF UploadedInOrder, Consumer, TakeFirst, TakeMore, TypeOK
  <2> QED
    BY <2>1, <2>2
<1>9. Consumer' /\ UploadedInOrder'
  BY <1>3, <1>8 DEF Consumer, UploadedInOrder, TakeFirst, TakeMore, TypeOK
<1> QED
  BY <1>4, <1>5, <1>6, <1>7, <1>9
-----------------------------------------------------------------------------
LEMMA StutterInv == ASSUME Inv, UNCHANGED vars PROVE Inv'
<1>1. TypeOK' /\ Posting' = Posting
  BY DEF Inv, TypeOK, Posting, vars, ringVars, prodVars, consVars
<1> QED
  BY <1>1, QuietProducerInv DEF vars, prodVars

(* Every step of every worker and of the cloud thread preserves Inv. *)
THEOREM Invariance == Spec => []Inv
<1>1. Inv /\ [Next]_vars => Inv'
  <2> SUFFICES ASSUME Inv, [Next]_vars PROVE Inv'
    OBVIOUS
  <2>1. ASSUME NEW p \in Producers, Parse(p) \/ Task(p) PROVE Inv'
    BY <2>1, ParseInv, PushInv, DropInv, PostInv, UpdateInv DEF Task
  <2>2. CASE Cloud
    BY <2>2, SemWaitInv, QuietConsumerInv, TakeInv DEF Cloud, TakeFirst, TakeMore
  <2>3. CASE UNCHANGED vars
    BY <2>3, StutterInv
  <2> QED
    BY <2>1, <2>2, <2>3 DEF Next
<1> QED
  BY InitInv, <1>1, PTL DEF Spec

(* Semaphore and ring never disagree: every sem_wait that returns finds a  *)
(* reading, for any number of workers and any ring size.                   *)
THEOREM TokensAgree == Spec => []TokensAndRingAgree
  BY Invariance, PTL DEF Inv, TokensAndRingAgree

(* Batches are runs of consecutive readings, sent in order, never twice.   *)
THEOREM BatchesInOrder == Spec => []BatchesSentInOrder
  BY Invariance, PTL DEF Inv, BatchesSentInOrder
-----------------------------------------------------------------------------
(* LogHawk.  Its inductive invariant has three parts: what the variables   *)
(* range over, who holds the mutex that SEM_UNDO would give back, and the  *)
(* books of the ring and of the lines.                                     *)
Procs == {Collector} \cup Processors
Kinds == {"info", "warn", "error", "kernel"}
Message == [mtype : Kinds, mtext : Nat]
Stations == {"fopen", "fgets", "P space", "P mutex", "write", "V mutex", "V data", "P data", "read",
            "V space", "msgsnd", "ended", "killed"}

(* Of the two that LogTypeOK leaves open: the register of the outputer     *)
(* fits the bucket when it is stored, and an outputer without a queue      *)
(* never has a message.                                                    *)
LogTypes ==
  /\ hawk \in Hawks
  /\ blocks \in [0 .. MAX_LOGS - 1 -> Nat]
  /\ write_pos \in 0 .. MAX_LOGS - 1 /\ read_pos \in 0 .. MAX_LOGS - 1
  /\ sems \in [Semaphores -> Nat] /\ semadj \in [Procs -> [Semaphores -> Int]]
  /\ at \in [Procs -> Stations]
  /\ line \in 0 .. Len(Log) /\ raw_log \in [Processors -> Nat]
  /\ msgs \in Seq(Message) /\ msg \in Message
  /\ token \in 0 .. hawk.outputer.burst /\ elapsed \in Nat
  /\ opc = "store" => reg \in 0 .. hawk.outputer.burst
  /\ files \in [Kinds -> Seq(Nat)]
  /\ ~hawk.outputer.finds => msg.mtext = 0

(* With SEM_UNDO exactly the holder of the mutex has something to undo. *)
Undoes ==
  hawk.sem.SEM_UNDO =>
    /\ \A p \in Procs : semadj[p]["mutex"] = IF p \in Holders THEN 1 ELSE 0
    /\ sems["mutex"] + Cardinality(Holders) = 1
-----------------------------------------------------------------------------
LEMMA MessageFields ==
  /\ \A m \in Message : m.mtype \in Kinds /\ m.mtext \in Nat
  /\ \A k \in Kinds, t \in Nat : [mtype |-> k, mtext |-> t] \in Message
  /\ \A k, t : [mtype |-> k, mtext |-> t].mtext = t
  BY DEF Message

LEMMA SizeFacts ==
  /\ MAX_LOGS \in Nat /\ MAX_LOGS > 0 /\ MSG_CAP \in Nat /\ Len(Log) \in Nat
  /\ SEMVMX \in Nat /\ MAX_LOGS <= SEMVMX
<1>1. /\ MAX_LOGS \in Nat \ {0} /\ MSG_CAP \in Nat \ {0} /\ Len(Log) \in Nat
      /\ SEMVMX \in Nat /\ MAX_LOGS <= SEMVMX
  BY LogAssumption, Zenon
<1> QED
  BY <1>1

LEMMA HawkFields ==
  ASSUME hawk \in Hawks
  PROVE  /\ hawk.main.processor_cnt \in Nat
         /\ hawk.outputer.burst \in Nat /\ hawk.outputer.cps \in Nat
         /\ hawk.outputer.token \in 0 .. hawk.outputer.burst
  BY LogAssumption

LEMMA MinOfTwo ==
  ASSUME NEW a \in Int, NEW b \in Int
  PROVE  Min({a, b}) = IF a <= b THEN a ELSE b
<1> DEFINE m == IF a <= b THEN a ELSE b
<1>1. m \in {a, b} /\ \A y \in {a, b} : m <= y
  OBVIOUS
<1>2. \A x \in {a, b} : (\A y \in {a, b} : x <= y) => x = m
  OBVIOUS
<1>3. Min({a, b}) \in {a, b} /\ \A y \in {a, b} : Min({a, b}) <= y
  <2> HIDE DEF m
  <2> QED
    BY <1>1, Zenon DEF Min
<1> QED
  BY <1>2, <1>3

LEMMA MaxOfTwo ==
  ASSUME NEW a \in Int, NEW b \in Int
  PROVE  Max({a, b}) = IF a <= b THEN b ELSE a
<1> DEFINE m == IF a <= b THEN b ELSE a
<1>1. m \in {a, b} /\ \A y \in {a, b} : m >= y
  OBVIOUS
<1>2. \A x \in {a, b} : (\A y \in {a, b} : x >= y) => x = m
  OBVIOUS
<1>3. Max({a, b}) \in {a, b} /\ \A y \in {a, b} : Max({a, b}) >= y
  <2> HIDE DEF m
  <2> QED
    BY <1>1, Zenon DEF Max
<1> QED
  BY <1>2, <1>3

LEMMA ClassifiedIsKind == \A n : Classified(n) \in Kinds
  BY DEF Classified, Kinds

LEMMA ProcsFacts ==
  ASSUME hawk \in Hawks
  PROVE  /\ Collector \in Procs /\ Processors \subseteq Procs /\ Collector \notin Processors
         /\ IsFiniteSet(Processors) /\ IsFiniteSet(Procs)
         /\ Procs = {Collector} \cup Processors
<1>1. hawk.main.processor_cnt \in Nat
  BY HawkFields
<1> PICK k : k = hawk.main.processor_cnt
  OBVIOUS
<1>2. IsFiniteSet(Processors)
  <2>1. k \in Int /\ 1 \in Int
    BY <1>1
  <2>2. IsFiniteSet(1 .. k)
    BY <2>1, FS_Interval, Zenon
  <2> QED
    BY <2>2, Zenon DEF Processors
<1>3. IsFiniteSet(Processors \cup {Collector})
  BY <1>2, FS_AddElement
<1>4. Collector \notin Processors
  BY <1>1 DEF Collector, Processors
<1>5. Procs = Processors \cup {Collector}
  BY Zenon DEF Procs
<1> QED
  BY <1>2, <1>3, <1>4, <1>5

LEMMA LogTypesStart == ASSUME LogInit PROVE LogTypes
<1>0. hawk \in Hawks
  BY DEF LogInit
<1>1. blocks \in [0 .. MAX_LOGS - 1 -> Nat] /\ write_pos \in 0 .. MAX_LOGS - 1 /\ read_pos \in 0 .. MAX_LOGS - 1
  <2>1. blocks = [i \in 0 .. MAX_LOGS - 1 |-> 0] /\ write_pos = 0 /\ read_pos = 0
    BY Zenon DEF LogInit
  <2> QED
    BY <2>1, SizeFacts
<1>2. sems \in [Semaphores -> Nat]
  <2>1. sems = [s \in Semaphores |-> IF s = "mutex" THEN 1 ELSE IF s = "space" THEN MAX_LOGS ELSE 0]
    BY Zenon DEF LogInit
  <2> QED
    BY <2>1, SizeFacts
<1>3. at = [p \in Procs |-> IF p = Collector THEN "fopen" ELSE "P data"]
  BY Zenon DEF LogInit, Procs
<1>4. at \in [Procs -> Stations] /\ DOMAIN at = Procs
  <2>1. {"fopen", "P data"} \subseteq Stations
    BY DEF Stations
  <2> QED
    BY <1>3, <2>1
<1>5. semadj \in [Procs -> [Semaphores -> Int]]
  <2>1. semadj = [p \in DOMAIN at |-> [s \in Semaphores |-> 0]]
    BY Zenon DEF LogInit
  <2>2. [s \in Semaphores |-> 0] \in [Semaphores -> Int]
    OBVIOUS
  <2> QED
    BY <2>1, <2>2, <1>4
<1>6. line \in 0 .. Len(Log) /\ raw_log \in [Processors -> Nat]
  <2>1. line = 0 /\ raw_log = [p \in Processors |-> 0]
    BY Zenon DEF LogInit
  <2> QED
    BY <2>1, SizeFacts
<1>7. msgs \in Seq(Message)
  <2>1. msgs = <<>>
    BY Zenon DEF LogInit
  <2> QED
    BY <2>1
<1>8. msg \in Message /\ msg.mtext = 0
  <2>1. msg = [mtype |-> "info", mtext |-> 0]
    BY Zenon DEF LogInit, NoMsg
  <2> QED
    BY <2>1, MessageFields DEF Kinds
<1>9. token \in 0 .. hawk.outputer.burst /\ elapsed \in Nat
  <2>1. token = hawk.outputer.token /\ elapsed = 0
    BY Zenon DEF LogInit
  <2> QED
    BY <2>1, <1>0, HawkFields
<1>10. files \in [Kinds -> Seq(Nat)]
  <2>1. files = [f \in Kinds |-> <<>>]
    BY Zenon DEF LogInit, Kinds
  <2> QED
    BY <2>1
<1>11. opc # "store"
  BY DEF LogInit
<1> QED
  BY <1>0, <1>1, <1>2, <1>4, <1>5, <1>6, <1>7, <1>8, <1>9, <1>10, <1>11, Zenon DEF LogTypes

LEMMA SemTypes ==
  ASSUME LogTypes, NEW p \in Procs, NEW from, NEW s \in Semaphores, NEW op \in {-1, 1},
         NEW to \in Stations, SemStep(p, from, s, op, to)
  PROVE  LogTypes'
<1>0. /\ sems \in [Semaphores -> Nat] /\ semadj \in [Procs -> [Semaphores -> Int]]
      /\ at \in [Procs -> Stations]
  BY Zenon DEF LogTypes
<1>1. UNCHANGED <<hawk, ringState, line, raw_log, msgs, outState>>
  BY Zenon DEF SemStep
<1>2. sems' \in [Semaphores -> Nat]
  <2>1. sems[s] + op \in Nat /\ (sems' = sems \/ sems' = [sems EXCEPT ![s] = sems[s] + op])
    BY <1>0 DEF SemStep, Semop
  <2> QED
    BY <1>0, <2>1
<1>3. at' \in [Procs -> Stations]
  BY <1>0 DEF SemStep, Goes
<1>4. semadj' \in [Procs -> [Semaphores -> Int]]
  <2>0. CASE Refused(p, s, op)
    BY <2>0, <1>0 DEF SemStep, Semop
  <2> SUFFICES ASSUME ~Refused(p, s, op) PROVE semadj' \in [Procs -> [Semaphores -> Int]]
    BY <2>0
  <2>1. CASE hawk.sem.SEM_UNDO
    <3>1. semadj' = [semadj EXCEPT ![p][s] = semadj[p][s] - op]
      BY <2>1, <1>0 DEF SemStep, Semop
    <3>2. semadj[p] \in [Semaphores -> Int] /\ semadj[p][s] - op \in Int
      BY <1>0
    <3>3. [semadj[p] EXCEPT ![s] = semadj[p][s] - op] \in [Semaphores -> Int]
      BY <3>2
    <3> QED
      BY <1>0, <3>1, <3>3
  <2>2. CASE ~hawk.sem.SEM_UNDO
    BY <2>2, <1>0 DEF SemStep, Semop
  <2> QED
    BY <2>1, <2>2
<1> QED
  BY <1>1, <1>2, <1>3, <1>4 DEF LogTypes, ringState, outState, Procs, Processors

(* A step of the outputer or of its clock leaves the rest alone. *)
LEMMA OutTypes ==
  ASSUME LogTypes, shared' = shared,
         msgs' \in Seq(Message), msg' \in Message,
         token' \in 0 .. hawk.outputer.burst, elapsed' \in Nat,
         opc' = "store" => reg' \in 0 .. hawk.outputer.burst,
         files' \in [Kinds -> Seq(Nat)],
         ~hawk.outputer.finds => msg'.mtext = 0
  PROVE  LogTypes'
  BY Zenon DEF LogTypes, shared, ringState, Procs, Processors

LEMMA RefilledRange == ASSUME LogTypes PROVE Refilled \in 0 .. hawk.outputer.burst
<1>1. /\ token \in 0 .. hawk.outputer.burst /\ elapsed \in Nat
      /\ hawk.outputer.burst \in Nat /\ hawk.outputer.cps \in Nat
  BY HawkFields, Zenon DEF LogTypes
<1> PICK b, c : b = hawk.outputer.burst /\ c = hawk.outputer.cps
  OBVIOUS
<1>2. b \in Nat /\ c \in Nat /\ token \in 0 .. b /\ elapsed \in Nat
  BY <1>1
<1>3. token + c * elapsed \in Nat
  BY <1>2
<1>4. Refilled = Min({token + c * elapsed, b})
  BY Zenon DEF Refilled
<1>5. Refilled = IF token + c * elapsed <= b THEN token + c * elapsed ELSE b
  BY <1>2, <1>3, <1>4, MinOfTwo
<1>6. Refilled \in 0 .. b
  BY <1>2, <1>3, <1>5
<1> QED
  BY <1>6

LEMMA OutputerTypes == ASSUME LogTypes, outputer \/ sigalrm_handler \/ Second PROVE LogTypes'
<1>0. /\ msgs \in Seq(Message) /\ msg \in Message
      /\ token \in 0 .. hawk.outputer.burst /\ elapsed \in Nat
      /\ (opc = "store" => reg \in 0 .. hawk.outputer.burst)
      /\ files \in [Kinds -> Seq(Nat)]
      /\ (~hawk.outputer.finds => msg.mtext = 0)
      /\ hawk.outputer.burst \in Nat /\ hawk.outputer.cps \in Nat
  BY HawkFields, Zenon DEF LogTypes
<1>1. CASE OpenFiles
  <2>1. opc' # "store"
    BY <1>1 DEF OpenFiles
  <2> QED
    BY <1>0, <1>1, <2>1, OutTypes, Zenon DEF OpenFiles
<1>2. CASE Receive
  <2>1. /\ shared' = shared /\ token' = token /\ elapsed' = elapsed /\ files' = files
        /\ opc' = "take"
    BY <1>2, Zenon DEF Receive
  <2>2. msgs' \in Seq(Message) /\ msg' \in Message /\ (~hawk.outputer.finds => msg'.mtext = 0)
    <3>1. CASE hawk.outputer.finds
      <4>1. msgs # <<>> /\ msg' = Head(msgs) /\ msgs' = Tail(msgs)
        BY <1>2, <3>1, Zenon DEF Receive
      <4> QED
        BY <1>0, <3>1, <4>1, HeadTailProperties
    <3>2. CASE ~hawk.outputer.finds
      <4>1. msgs' = msgs /\ msg' = [mtype |-> "info", mtext |-> 0]
        BY <1>2, <3>2, Zenon DEF Receive, NoMsg
      <4>2. msg' \in Message /\ msg'.mtext = 0
        BY <4>1, MessageFields DEF Kinds
      <4> QED
        BY <1>0, <4>1, <4>2, Zenon
    <3> QED
      BY <3>1, <3>2, Zenon
  <2>3. opc' # "store"
    BY <2>1
  <2> QED
    BY <1>0, <2>1, <2>2, <2>3, OutTypes, Zenon
<1>3. CASE LoadToken
  <2>1. /\ shared' = shared /\ msgs' = msgs /\ msg' = msg /\ token' = token /\ elapsed' = 0 /\ files' = files
        /\ Refilled > 0 /\ reg' = Refilled - 1
    BY <1>3, Zenon DEF LoadToken
  <2>2. reg' \in 0 .. hawk.outputer.burst /\ elapsed' \in Nat
    BY <1>0, <2>1, RefilledRange
  <2> QED
    BY <1>0, <2>1, <2>2, OutTypes, Zenon
<1>4. CASE StoreToken
  <2>1. /\ shared' = shared /\ msgs' = msgs /\ msg' = msg /\ elapsed' = elapsed /\ files' = files
        /\ token' = reg /\ opc = "store" /\ opc' = "write"
    BY <1>4, Zenon DEF StoreToken
  <2>2. opc' # "store"
    BY <2>1
  <2> QED
    BY <1>0, <2>1, <2>2, OutTypes, Zenon
<1>5. CASE WriteMsg
  <2>1. /\ shared' = shared /\ msgs' = msgs /\ msg' = msg /\ elapsed' = elapsed /\ token' = token
        /\ opc' = "msgrcv"
        /\ files' = files \/ files' = [files EXCEPT ![msg.mtype] = Append(files[msg.mtype], msg.mtext)]
    BY <1>5 DEF WriteMsg
  <2>2. opc' # "store"
    BY <2>1
  <2>3. files' \in [Kinds -> Seq(Nat)]
    <3>1. msg.mtype \in Kinds /\ msg.mtext \in Nat
      BY <1>0, MessageFields
    <3>2. Append(files[msg.mtype], msg.mtext) \in Seq(Nat)
      BY <1>0, <3>1
    <3> QED
      BY <1>0, <2>1, <3>1, <3>2
  <2> QED
    BY <1>0, <2>1, <2>2, <2>3, OutTypes, Zenon
<1>6. CASE sigalrm_handler
  <2>1. /\ shared' = shared /\ msgs' = msgs /\ msg' = msg /\ elapsed' = elapsed /\ files' = files
        /\ opc' = opc /\ reg' = reg
        /\ token' = Min({token + hawk.outputer.cps, hawk.outputer.burst})
    BY <1>6, Zenon DEF sigalrm_handler
  <2>2. token' \in 0 .. hawk.outputer.burst
    <3> PICK b, c : b = hawk.outputer.burst /\ c = hawk.outputer.cps
      OBVIOUS
    <3>1. b \in Nat /\ c \in Nat /\ token \in 0 .. b /\ token' = Min({token + c, b})
      BY <1>0, <2>1, Zenon
    <3>2. token' = IF token + c <= b THEN token + c ELSE b
      BY <3>1, MinOfTwo
    <3>3. token' \in 0 .. b
      BY <3>1, <3>2
    <3> QED
      BY <3>3
  <2> QED
    BY <1>0, <2>1, <2>2, OutTypes, Zenon
<1>7. CASE Second
  <2>1. /\ shared' = shared /\ msgs' = msgs /\ msg' = msg /\ elapsed' = elapsed + 1 /\ files' = files
        /\ opc' = opc /\ reg' = reg /\ token' = token
    BY <1>7, Zenon DEF Second
  <2>2. elapsed' \in Nat
    BY <1>0, <2>1
  <2> QED
    BY <1>0, <2>1, <2>2, OutTypes, Zenon
<1> QED
  BY <1>1, <1>2, <1>3, <1>4, <1>5, <1>6, <1>7, Zenon DEF outputer

(* A step of the collector or of a processor leaves the outputer alone. *)
LEMMA ProcTypes ==
  ASSUME LogTypes, UNCHANGED <<hawk, outState>>,
         blocks' \in [0 .. MAX_LOGS - 1 -> Nat],
         write_pos' \in 0 .. MAX_LOGS - 1, read_pos' \in 0 .. MAX_LOGS - 1,
         sems' \in [Semaphores -> Nat], semadj' \in [Procs -> [Semaphores -> Int]],
         at' \in [Procs -> Stations], line' \in 0 .. Len(Log), raw_log' \in [Processors -> Nat],
         msgs' \in Seq(Message)
  PROVE  LogTypes'
  BY Zenon DEF LogTypes, outState, Procs, Processors

LEMMA GoesTypes ==
  ASSUME LogTypes, NEW q \in Procs, NEW from, NEW to \in Stations, Goes(q, from, to)
  PROVE  at' \in [Procs -> Stations]
<1>1. at \in [Procs -> Stations]
  BY Zenon DEF LogTypes
<1> QED
  BY <1>1 DEF Goes

LEMMA Wraps == \A i \in 0 .. MAX_LOGS - 1 : (i + 1) % MAX_LOGS \in 0 .. MAX_LOGS - 1
  BY SizeFacts

LEMMA CollectorTypes == ASSUME LogTypes, collector PROVE LogTypes'
<1>0. /\ blocks \in [0 .. MAX_LOGS - 1 -> Nat]
      /\ write_pos \in 0 .. MAX_LOGS - 1 /\ read_pos \in 0 .. MAX_LOGS - 1
      /\ sems \in [Semaphores -> Nat] /\ semadj \in [Procs -> [Semaphores -> Int]]
      /\ line \in 0 .. Len(Log) /\ raw_log \in [Processors -> Nat] /\ msgs \in Seq(Message)
      /\ Collector \in Procs
  BY ProcsFacts, Zenon DEF LogTypes
<1>a. {"fgets", "ended", "P space", "V mutex", "V data", "P mutex", "write"} \subseteq Stations
  BY DEF Stations
<1>b. "space" \in Semaphores /\ "mutex" \in Semaphores /\ "data" \in Semaphores /\ -1 \in {-1, 1} /\ 1 \in {-1, 1}
  BY DEF Semaphores
<1>1. CASE OpenLog
  <2>1. UNCHANGED <<hawk, ringState, sems, semadj, line, raw_log, msgs, outState>>
    BY <1>1, Zenon DEF OpenLog
  <2>2. at' \in [Procs -> Stations]
    BY <1>0, <1>1, <1>a, GoesTypes DEF OpenLog
  <2> QED
    BY <1>0, <2>1, <2>2, ProcTypes, Zenon DEF ringState
<1>2. CASE ReadLine
  <2>1. /\ UNCHANGED <<hawk, ringState, sems, semadj, raw_log, msgs, outState>>
        /\ line < Len(Log) /\ line' = line + 1
    BY <1>2, Zenon DEF ReadLine
  <2>2. at' \in [Procs -> Stations]
    <3>1. Goes(Collector, "fgets", "fgets") \/ Goes(Collector, "fgets", "P space")
      BY <1>2, Zenon DEF ReadLine
    <3> QED
      BY <1>0, <3>1, <1>a, GoesTypes
  <2>3. line' \in 0 .. Len(Log)
    BY <1>0, <2>1, SizeFacts
  <2> QED
    BY <1>0, <2>1, <2>2, <2>3, ProcTypes, Zenon DEF ringState
<1>3. CASE EndOfLog
  <2>1. UNCHANGED <<hawk, ringState, sems, semadj, line, raw_log, msgs, outState>>
    BY <1>3, Zenon DEF EndOfLog
  <2>2. at' \in [Procs -> Stations]
    BY <1>0, <1>3, <1>a, GoesTypes DEF EndOfLog
  <2> QED
    BY <1>0, <2>1, <2>2, ProcTypes, Zenon DEF ringState
<1>4. CASE WriteBlock
  <2>1. /\ UNCHANGED <<hawk, read_pos, sems, semadj, line, raw_log, msgs, outState>>
        /\ blocks' = [blocks EXCEPT ![write_pos] = line]
        /\ write_pos' = (write_pos + 1) % MAX_LOGS
    BY <1>4, Zenon DEF WriteBlock
  <2>2. at' \in [Procs -> Stations]
    <3>1. Goes(Collector, "write", "V mutex") \/ Goes(Collector, "write", "V data")
      BY <1>4, Zenon DEF WriteBlock
    <3> QED
      BY <1>0, <3>1, <1>a, GoesTypes
  <2>3. blocks' \in [0 .. MAX_LOGS - 1 -> Nat]
    BY <1>0, <2>1
  <2>4. write_pos' \in 0 .. MAX_LOGS - 1
    BY <1>0, <2>1, Wraps
  <2> QED
    BY <1>0, <2>1, <2>2, <2>3, <2>4, ProcTypes, Zenon
<1>5. CASE ClaimSpace
  <2>1. \/ SemStep(Collector, "P space", "space", -1, "P mutex")
        \/ SemStep(Collector, "P space", "space", -1, "write")
    BY <1>5, Zenon DEF ClaimSpace
  <2> QED
    BY <1>0, <1>a, <1>b, <2>1, SemTypes
<1>6. CASE SemStep(Collector, "P mutex", "mutex", -1, "write")
  BY <1>0, <1>a, <1>b, <1>6, SemTypes
<1>7. CASE SemStep(Collector, "V mutex", "mutex", 1, "V data")
  BY <1>0, <1>a, <1>b, <1>7, SemTypes
<1>8. CASE SemStep(Collector, "V data", "data", 1, "fgets")
  BY <1>0, <1>a, <1>b, <1>8, SemTypes
<1> QED
  BY <1>1, <1>2, <1>3, <1>4, <1>5, <1>6, <1>7, <1>8, Zenon DEF collector

LEMMA ProcessorTypes == ASSUME LogTypes, NEW q \in Processors, processor(q) PROVE LogTypes'
<1>0. /\ blocks \in [0 .. MAX_LOGS - 1 -> Nat]
      /\ write_pos \in 0 .. MAX_LOGS - 1 /\ read_pos \in 0 .. MAX_LOGS - 1
      /\ sems \in [Semaphores -> Nat] /\ semadj \in [Procs -> [Semaphores -> Int]]
      /\ line \in 0 .. Len(Log) /\ raw_log \in [Processors -> Nat] /\ msgs \in Seq(Message)
      /\ q \in Procs
  BY ProcsFacts DEF LogTypes
<1>a. {"P mutex", "read", "V mutex", "V space", "msgsnd", "P data"} \subseteq Stations
  BY DEF Stations
<1>b. "space" \in Semaphores /\ "mutex" \in Semaphores /\ "data" \in Semaphores /\ -1 \in {-1, 1} /\ 1 \in {-1, 1}
  BY DEF Semaphores
<1>1. CASE SemStep(q, "P data", "data", -1, "P mutex")
  BY <1>0, <1>a, <1>b, <1>1, SemTypes
<1>2. CASE SemStep(q, "P mutex", "mutex", -1, "read")
  BY <1>0, <1>a, <1>b, <1>2, SemTypes
<1>3. CASE ReadBlock(q)
  <2>1. /\ UNCHANGED <<hawk, blocks, write_pos, sems, semadj, line, msgs, outState>>
        /\ raw_log' = [raw_log EXCEPT ![q] = blocks[read_pos]]
        /\ read_pos' = (read_pos + 1) % MAX_LOGS
    BY <1>3, Zenon DEF ReadBlock
  <2>2. at' \in [Procs -> Stations]
    BY <1>0, <1>3, <1>a, GoesTypes DEF ReadBlock
  <2>3. read_pos' \in 0 .. MAX_LOGS - 1
    BY <1>0, <2>1, Wraps
  <2>4. raw_log' \in [Processors -> Nat]
    BY <1>0, <2>1
  <2> QED
    BY <1>0, <2>1, <2>2, <2>3, <2>4, ProcTypes, Zenon
<1>4. CASE SemStep(q, "V mutex", "mutex", 1, "V space")
  BY <1>0, <1>a, <1>b, <1>4, SemTypes
<1>5. CASE SemStep(q, "V space", "space", 1, "msgsnd")
  BY <1>0, <1>a, <1>b, <1>5, SemTypes
<1>6. CASE SendMsg(q)
  <2>1. /\ UNCHANGED <<hawk, ringState, sems, semadj, line, raw_log, outState>>
        /\ msgs' = Append(msgs, [mtype |-> Classified(raw_log[q]), mtext |-> raw_log[q]])
    BY <1>6, Zenon DEF SendMsg
  <2>2. at' \in [Procs -> Stations]
    BY <1>0, <1>6, <1>a, GoesTypes DEF SendMsg
  <2>3. [mtype |-> Classified(raw_log[q]), mtext |-> raw_log[q]] \in Message
    <3>1. raw_log[q] \in Nat
      BY <1>0
    <3> QED
      BY <3>1, ClassifiedIsKind, MessageFields, Zenon
  <2>4. msgs' \in Seq(Message)
    BY <1>0, <2>1, <2>3, AppendProperties, Zenon
  <2> QED
    BY <1>0, <2>1, <2>2, <2>4, ProcTypes, Zenon DEF ringState
<1> QED
  BY <1>1, <1>2, <1>3, <1>4, <1>5, <1>6, Zenon DEF processor

LEMMA KillTypes == ASSUME LogTypes, NEW q \in Procs, Kill(q) PROVE LogTypes'
<1>0. /\ blocks \in [0 .. MAX_LOGS - 1 -> Nat]
      /\ write_pos \in 0 .. MAX_LOGS - 1 /\ read_pos \in 0 .. MAX_LOGS - 1
      /\ sems \in [Semaphores -> Nat] /\ semadj \in [Procs -> [Semaphores -> Int]]
      /\ at \in [Procs -> Stations]
      /\ line \in 0 .. Len(Log) /\ raw_log \in [Processors -> Nat] /\ msgs \in Seq(Message)
  BY DEF LogTypes
<1>1. /\ UNCHANGED <<hawk, ringState, line, raw_log, msgs, outState>>
      /\ at' = [at EXCEPT ![q] = "killed"]
      /\ sems' = [s \in Semaphores |-> Min({SEMVMX, Max({0, sems[s] + semadj[q][s]})})]
      /\ semadj' = [semadj EXCEPT ![q] = [s \in Semaphores |-> 0]]
  BY Zenon DEF Kill
<1>2. at' \in [Procs -> Stations]
  BY <1>0, <1>1 DEF Stations
<1>3. semadj' \in [Procs -> [Semaphores -> Int]]
  <2>1. [s \in Semaphores |-> 0] \in [Semaphores -> Int]
    OBVIOUS
  <2> QED
    BY <1>0, <1>1, <2>1
<1>4. \A s \in Semaphores : sems[s] + semadj[q][s] \in Int
  BY <1>0
<1>5. \A s \in Semaphores : Min({SEMVMX, Max({0, sems[s] + semadj[q][s]})}) \in Nat
  <2>1. \A s \in Semaphores : Max({0, sems[s] + semadj[q][s]}) \in Nat
    BY <1>4, MaxOfTwo
  <2> QED
    BY <2>1, MinOfTwo, SizeFacts
<1>6. sems' \in [Semaphores -> Nat]
  BY <1>1, <1>5
<1> QED
  BY <1>0, <1>1, <1>2, <1>3, <1>6, ProcTypes, Zenon DEF ringState

LEMMA LogTypesStep == ASSUME LogTypes, LogNext PROVE LogTypes'
<1>1. DOMAIN at = Procs
  BY DEF LogTypes
<1>2. ASSUME NEW q \in DOMAIN at, Kill(q) PROVE LogTypes'
  BY <1>1, <1>2, KillTypes, Zenon
<1> QED
  BY <1>2, CollectorTypes, ProcessorTypes, OutputerTypes, Zenon DEF LogNext
-----------------------------------------------------------------------------
HoldsAt(q) == IF q = Collector THEN {"write", "V mutex"} ELSE {"read", "V mutex"}

LEMMA HoldersMove ==
  ASSUME LogTypes, NEW q \in Procs, NEW to, at' = [at EXCEPT ![q] = to], hawk' = hawk
  PROVE  /\ IsFiniteSet(Holders) /\ Cardinality(Holders) \in Nat
         /\ q \in Holders <=> at[q] \in HoldsAt(q)
         /\ Holders' = IF to \in HoldsAt(q) THEN Holders \cup {q} ELSE Holders \ {q}
<1>0. at \in [Procs -> Stations] /\ hawk \in Hawks
  BY Zenon DEF LogTypes
<1>1. DOMAIN at = Procs /\ DOMAIN at' = Procs
  BY <1>0
<1>2. Holders = {r \in Procs : at[r] \in HoldsAt(r)} /\ Holders' = {r \in Procs : at'[r] \in HoldsAt(r)}
  BY <1>1, Zenon DEF Holders, HoldsAt, InStep, Collector
<1>3. IsFiniteSet(Holders) /\ Cardinality(Holders) \in Nat
  <2>1. IsFiniteSet(Procs) /\ Holders \in SUBSET Procs
    BY <1>0, <1>2, ProcsFacts, Zenon
  <2> QED
    BY <2>1, FS_Subset, FS_CardinalityType, Zenon
<1>4. \A r \in Procs : at'[r] = IF r = q THEN to ELSE at[r]
  BY <1>0
<1> QED
  BY <1>2, <1>3, <1>4

(* A step that leaves the holders and the mutex alone. *)
LEMMA UndoesKept ==
  ASSUME Undoes, hawk' = hawk, sems'["mutex"] = sems["mutex"], Holders' = Holders,
         \A r \in Procs : semadj'[r]["mutex"] = semadj[r]["mutex"]
  PROVE  Undoes'
<1>1. Procs' = Procs
  BY DEF Procs, Processors
<1> QED
  BY <1>1 DEF Undoes

(* A semaphore other than the mutex. *)
LEMMA OtherSem ==
  ASSUME LogTypes, Undoes, NEW q \in Procs, NEW from, NEW s \in Semaphores, NEW op \in {-1, 1}, NEW to,
         SemStep(q, from, s, op, to), s # "mutex",
         from \in HoldsAt(q) <=> to \in HoldsAt(q)
  PROVE  Undoes'
<1>0. /\ sems \in [Semaphores -> Nat] /\ semadj \in [Procs -> [Semaphores -> Int]]
  BY Zenon DEF LogTypes
<1>1. hawk' = hawk /\ at[q] = from /\ at' = [at EXCEPT ![q] = to]
  BY DEF SemStep, Goes
<1>2. Holders' = Holders
  <2>1. /\ q \in Holders <=> from \in HoldsAt(q)
        /\ Holders' = IF to \in HoldsAt(q) THEN Holders \cup {q} ELSE Holders \ {q}
    BY <1>1, HoldersMove, Zenon
  <2> QED
    BY <2>1
<1>3. sems' = sems \/ sems' = [sems EXCEPT ![s] = sems[s] + op]
  BY DEF SemStep, Semop
<1>4. sems'["mutex"] = sems["mutex"]
  BY <1>0, <1>3 DEF Semaphores
<1>5. \A r \in Procs : semadj'[r]["mutex"] = semadj[r]["mutex"]
  <2>0. CASE Refused(q, s, op)
    BY <2>0 DEF SemStep, Semop
  <2> SUFFICES ASSUME ~Refused(q, s, op) PROVE \A r \in Procs : semadj'[r]["mutex"] = semadj[r]["mutex"]
    BY <2>0
  <2>1. CASE hawk.sem.SEM_UNDO
    <3>1. semadj' = [semadj EXCEPT ![q][s] = semadj[q][s] - op]
      BY <2>1, <1>0 DEF SemStep, Semop
    <3>2. semadj[q] \in [Semaphores -> Int]
      BY <1>0
    <3>3. [semadj[q] EXCEPT ![s] = semadj[q][s] - op]["mutex"] = semadj[q]["mutex"]
      BY <3>2 DEF Semaphores
    <3> QED
      BY <1>0, <3>1, <3>3
  <2>2. CASE ~hawk.sem.SEM_UNDO
    BY <2>2 DEF SemStep, Semop
  <2> QED
    BY <2>1, <2>2
<1> QED
  BY <1>1, <1>2, <1>4, <1>5, UndoesKept, Zenon

(* P and V of the mutex: they are never refused.                           *)
LEMMA MutexSem ==
  ASSUME LogTypes, Undoes, NEW q \in Procs, NEW from, NEW op \in {-1, 1}, NEW to,
         SemStep(q, from, "mutex", op, to),
         IF op = 1 THEN from \in HoldsAt(q) /\ to \notin HoldsAt(q)
                   ELSE from \notin HoldsAt(q) /\ to \in HoldsAt(q)
  PROVE  Undoes'
<1> SUFFICES ASSUME hawk'.sem.SEM_UNDO
             PROVE  /\ \A r \in Procs' : semadj'[r]["mutex"] = IF r \in Holders' THEN 1 ELSE 0
                    /\ sems'["mutex"] + Cardinality(Holders') = 1
  BY DEF Undoes
<1>0. /\ sems \in [Semaphores -> Nat] /\ semadj \in [Procs -> [Semaphores -> Int]] /\ "mutex" \in Semaphores
  BY Zenon DEF LogTypes, Semaphores
<1>1. hawk' = hawk /\ at[q] = from /\ at' = [at EXCEPT ![q] = to]
  BY DEF SemStep, Goes
<1>2. hawk.sem.SEM_UNDO /\ Procs' = Procs
  BY <1>1 DEF Procs, Processors
<1>3. /\ \A r \in Procs : semadj[r]["mutex"] = IF r \in Holders THEN 1 ELSE 0
      /\ sems["mutex"] + Cardinality(Holders) = 1
  BY <1>2, Zenon DEF Undoes
<1>5. semadj[q] \in [Semaphores -> Int]
  BY <1>0
<1>f. /\ IsFiniteSet(Holders) /\ Cardinality(Holders) \in Nat
      /\ q \in Holders <=> from \in HoldsAt(q)
  BY <1>1, HoldersMove
<1>g. ~Refused(q, "mutex", op)
  <2>1. sems["mutex"] \in 0 .. 1 /\ semadj[q]["mutex"] = IF q \in Holders THEN 1 ELSE 0
    BY <1>0, <1>3, <1>f
  <2>2. op = 1 => sems["mutex"] = 0 /\ q \in Holders
    <3>1. q \in Holders => Cardinality(Holders) >= 1
      <4>1. q \in Holders => Cardinality(Holders \ {q}) = Cardinality(Holders) - 1 /\ IsFiniteSet(Holders \ {q})
        BY <1>f, FS_RemoveElement
      <4>2. IsFiniteSet(Holders \ {q}) => Cardinality(Holders \ {q}) \in Nat
        BY FS_CardinalityType
      <4> QED
        BY <1>f, <4>1, <4>2
    <3> QED
      BY <1>3, <1>f, <2>1, <3>1
  <2>3. op # 1 => op = -1 /\ q \notin Holders
    BY <1>f
  <2>4. op = 1 => sems["mutex"] + op = 1 /\ semadj[q]["mutex"] - op = 0
    BY <2>1, <2>2
  <2>5. op # 1 => sems["mutex"] + op <= 0 /\ semadj[q]["mutex"] - op = 1
    BY <2>1, <2>3
  <2> PICK a, b : a = sems["mutex"] + op /\ b = semadj[q]["mutex"] - op
    OBVIOUS
  <2>6. a \in Int /\ a <= 1 /\ b \in 0 .. 1
    BY <2>1, <2>4, <2>5
  <2>7. ~(a > SEMVMX) /\ ~(b < -SEMVMX - 1) /\ ~(b > SEMVMX)
    BY <2>6, SizeFacts
  <2> QED
    BY <2>7, Zenon DEF Refused
<1>4. /\ sems' = [sems EXCEPT !["mutex"] = sems["mutex"] + op]
      /\ semadj' = [semadj EXCEPT ![q]["mutex"] = semadj[q]["mutex"] - op]
  BY <1>0, <1>2, <1>g DEF SemStep, Semop
<1>6. /\ sems'["mutex"] = sems["mutex"] + op
      /\ \A r \in Procs : semadj'[r]["mutex"] = IF r = q THEN semadj[q]["mutex"] - op ELSE semadj[r]["mutex"]
  BY <1>0, <1>4, <1>5
<1>7. /\ IsFiniteSet(Holders) /\ Cardinality(Holders) \in Nat
      /\ q \in Holders <=> from \in HoldsAt(q)
      /\ Holders' = IF to \in HoldsAt(q) THEN Holders \cup {q} ELSE Holders \ {q}
  BY <1>1, HoldersMove
<1>8. CASE op = -1
  <2>1. q \notin Holders /\ Holders' = Holders \cup {q}
    BY <1>7, <1>8
  <2>2. Cardinality(Holders') = Cardinality(Holders) + 1
    BY <1>7, <2>1, FS_AddElement
  <2>3. op + 1 = 0 /\ op \in Int
    BY <1>8
  <2>4. sems["mutex"] \in Nat /\ \A r \in Procs : semadj[r]["mutex"] \in Int
    BY <1>0
  <2> QED
    BY <1>2, <1>3, <1>6, <1>7, <2>1, <2>2, <2>3, <2>4
<1>9. CASE op = 1
  <2>1. q \in Holders /\ Holders' = Holders \ {q}
    BY <1>7, <1>9
  <2>2. Cardinality(Holders') = Cardinality(Holders) - 1
    BY <1>7, <2>1, FS_RemoveElement
  <2>4. sems["mutex"] \in Nat /\ \A r \in Procs : semadj[r]["mutex"] \in Int
    BY <1>0
  <2> QED
    BY <1>2, <1>3, <1>6, <1>7, <1>9, <2>1, <2>2, <2>4
<1> QED
  BY <1>8, <1>9

LEMMA MovesOnly ==
  ASSUME LogTypes, Undoes, NEW q \in Procs, NEW from, NEW to, Goes(q, from, to),
         hawk' = hawk, sems' = sems, semadj' = semadj,
         from \in HoldsAt(q) <=> to \in HoldsAt(q)
  PROVE  Undoes'
<1>1. at[q] = from /\ at' = [at EXCEPT ![q] = to]
  BY DEF Goes
<1>2. Holders' = Holders
  <2>1. /\ q \in Holders <=> from \in HoldsAt(q)
        /\ Holders' = IF to \in HoldsAt(q) THEN Holders \cup {q} ELSE Holders \ {q}
    BY <1>1, HoldersMove, Zenon
  <2>2. CASE to \in HoldsAt(q)
    <3>1. q \in Holders /\ Holders' = Holders \cup {q}
      BY <2>1, <2>2, Zenon
    <3> QED
      BY <3>1, Zenon
  <2>3. CASE to \notin HoldsAt(q)
    <3>1. q \notin Holders /\ Holders' = Holders \ {q}
      BY <2>1, <2>3, Zenon
    <3> QED
      BY <3>1, Zenon
  <2> QED
    BY <2>2, <2>3, Zenon
<1> QED
  BY <1>2, UndoesKept, Zenon

LEMMA CollectorUndoes == ASSUME LogTypes, Undoes, collector PROVE Undoes'
<1>0. hawk \in Hawks /\ Collector \in Procs
  BY ProcsFacts, Zenon DEF LogTypes
<1>a. HoldsAt(Collector) = {"write", "V mutex"}
  BY DEF HoldsAt
<1>h. /\ "write" \in HoldsAt(Collector) /\ "V mutex" \in HoldsAt(Collector)
      /\ "P space" \notin HoldsAt(Collector) /\ "P mutex" \notin HoldsAt(Collector)
      /\ "V data" \notin HoldsAt(Collector) /\ "fgets" \notin HoldsAt(Collector)
  BY <1>a
<1>b. "space" \in Semaphores /\ "mutex" \in Semaphores /\ "data" \in Semaphores /\ -1 \in {-1, 1} /\ 1 \in {-1, 1}
  BY DEF Semaphores
<1>i. -1 # 1 /\ "space" # "mutex" /\ "data" # "mutex"
  OBVIOUS
<1>c. hawk' = hawk
  BY Zenon DEF collector, OpenLog, ReadLine, EndOfLog, WriteBlock, ClaimSpace, SemStep
<1>d. CASE ~hawk.sem.SEM_UNDO
  BY <1>c, <1>d DEF Undoes
<1>e. CASE hawk.sem.SEM_UNDO
  <2>0. hawk.collector.locks
    BY <1>0, <1>e, LogAssumption, Zenon
  <2>1. CASE OpenLog
    BY <2>1, <1>0, <1>a, MovesOnly DEF OpenLog
  <2>2. CASE ReadLine
    <3>1. Goes(Collector, "fgets", "fgets") \/ Goes(Collector, "fgets", "P space")
      BY <2>2, Zenon DEF ReadLine
    <3>2. UNCHANGED <<hawk, sems, semadj>>
      BY <2>2 DEF ReadLine
    <3> QED
      BY <3>1, <3>2, <1>0, <1>a, MovesOnly
  <2>3. CASE EndOfLog
    BY <2>3, <1>0, <1>a, MovesOnly DEF EndOfLog
  <2>4. CASE WriteBlock
    <3>1. Goes(Collector, "write", "V mutex") /\ UNCHANGED <<hawk, sems, semadj>>
      BY <2>0, <2>4 DEF WriteBlock
    <3> QED
      BY <3>1, <1>0, <1>a, MovesOnly
  <2>5. CASE ClaimSpace
    <3>1. SemStep(Collector, "P space", "space", -1, "P mutex")
      BY <2>0, <2>5, Zenon DEF ClaimSpace
    <3> QED
      BY <3>1, <1>0, <1>h, <1>i, <1>b, OtherSem, Zenon
  <2>6. CASE SemStep(Collector, "P mutex", "mutex", -1, "write")
    BY <2>6, <1>0, <1>h, <1>i, <1>b, MutexSem, Zenon
  <2>7. CASE SemStep(Collector, "V mutex", "mutex", 1, "V data")
    BY <2>7, <1>0, <1>h, <1>i, <1>b, MutexSem, Zenon
  <2>8. CASE SemStep(Collector, "V data", "data", 1, "fgets")
    BY <2>8, <1>0, <1>h, <1>i, <1>b, OtherSem, Zenon
  <2> QED
    BY <2>1, <2>2, <2>3, <2>4, <2>5, <2>6, <2>7, <2>8, Zenon DEF collector
<1> QED
  BY <1>d, <1>e

LEMMA ProcessorUndoes == ASSUME LogTypes, Undoes, NEW q \in Processors, processor(q) PROVE Undoes'
<1>0. q \in Procs /\ q # Collector
  BY ProcsFacts DEF LogTypes
<1>a. HoldsAt(q) = {"read", "V mutex"}
  BY <1>0 DEF HoldsAt
<1>h. /\ "read" \in HoldsAt(q) /\ "V mutex" \in HoldsAt(q)
      /\ "P data" \notin HoldsAt(q) /\ "P mutex" \notin HoldsAt(q)
      /\ "V space" \notin HoldsAt(q) /\ "msgsnd" \notin HoldsAt(q)
  BY <1>a
<1>b. "space" \in Semaphores /\ "mutex" \in Semaphores /\ "data" \in Semaphores /\ -1 \in {-1, 1} /\ 1 \in {-1, 1}
  BY DEF Semaphores
<1>i. -1 # 1 /\ "space" # "mutex" /\ "data" # "mutex"
  OBVIOUS
<1>1. CASE SemStep(q, "P data", "data", -1, "P mutex")
  BY <1>1, <1>0, <1>h, <1>i, <1>b, OtherSem, Zenon
<1>2. CASE SemStep(q, "P mutex", "mutex", -1, "read")
  BY <1>2, <1>0, <1>h, <1>i, <1>b, MutexSem, Zenon
<1>3. CASE ReadBlock(q)
  BY <1>3, <1>0, <1>a, MovesOnly DEF ReadBlock
<1>4. CASE SemStep(q, "V mutex", "mutex", 1, "V space")
  BY <1>4, <1>0, <1>h, <1>i, <1>b, MutexSem, Zenon
<1>5. CASE SemStep(q, "V space", "space", 1, "msgsnd")
  BY <1>5, <1>0, <1>h, <1>i, <1>b, OtherSem, Zenon
<1>6. CASE SendMsg(q)
  BY <1>6, <1>0, <1>a, MovesOnly DEF SendMsg
<1> QED
  BY <1>1, <1>2, <1>3, <1>4, <1>5, <1>6, Zenon DEF processor

LEMMA KillUndoes == ASSUME LogTypes, Undoes, NEW q \in Procs, Kill(q) PROVE Undoes'
<1> SUFFICES ASSUME hawk'.sem.SEM_UNDO
             PROVE  /\ \A r \in Procs' : semadj'[r]["mutex"] = IF r \in Holders' THEN 1 ELSE 0
                    /\ sems'["mutex"] + Cardinality(Holders') = 1
  BY DEF Undoes
<1>0. /\ sems \in [Semaphores -> Nat] /\ semadj \in [Procs -> [Semaphores -> Int]] /\ "mutex" \in Semaphores
  BY Zenon DEF LogTypes, Semaphores
<1>1. /\ hawk' = hawk /\ at' = [at EXCEPT ![q] = "killed"]
      /\ sems' = [s \in Semaphores |-> Min({SEMVMX, Max({0, sems[s] + semadj[q][s]})})]
      /\ semadj' = [semadj EXCEPT ![q] = [s \in Semaphores |-> 0]]
  BY Zenon DEF Kill
<1>2. hawk.sem.SEM_UNDO /\ Procs' = Procs
  BY <1>1 DEF Procs, Processors
<1>3. /\ \A r \in Procs : semadj[r]["mutex"] = IF r \in Holders THEN 1 ELSE 0
      /\ sems["mutex"] + Cardinality(Holders) = 1
  BY <1>2, Zenon DEF Undoes
<1>4. "killed" \notin HoldsAt(q)
  BY DEF HoldsAt
<1>5. IsFiniteSet(Holders) /\ Cardinality(Holders) \in Nat /\ Holders' = Holders \ {q}
  BY <1>1, <1>4, HoldersMove
<1>6. sems["mutex"] \in Nat /\ semadj[q]["mutex"] \in Int
  BY <1>0
<1>7. sems'["mutex"] = Min({SEMVMX, Max({0, sems["mutex"] + semadj[q]["mutex"]})})
  BY <1>0, <1>1
<1>8. sems'["mutex"] = sems["mutex"] + semadj[q]["mutex"]
  <2>1. sems["mutex"] + semadj[q]["mutex"] \in 0 .. 1
    <3>1. q \in Holders => Cardinality(Holders) >= 1
      <4>1. q \in Holders => Cardinality(Holders \ {q}) = Cardinality(Holders) - 1 /\ IsFiniteSet(Holders \ {q})
        BY <1>5, FS_RemoveElement
      <4>2. IsFiniteSet(Holders \ {q}) => Cardinality(Holders \ {q}) \in Nat
        BY FS_CardinalityType
      <4> QED
        BY <1>5, <4>1, <4>2
    <3> QED
      BY <1>3, <1>5, <1>6, <3>1
  <2> PICK x : x = sems["mutex"] + semadj[q]["mutex"]
    OBVIOUS
  <2>2. x \in 0 .. 1
    BY <2>1
  <2>3. Max({0, x}) = x /\ x <= SEMVMX /\ x \in Int /\ SEMVMX \in Int
    BY <2>2, MaxOfTwo, SizeFacts
  <2>4. Min({SEMVMX, x}) = x
    BY <2>3, MinOfTwo
  <2> QED
    BY <1>7, <2>3, <2>4, Zenon
<1>9. Cardinality(Holders') = IF q \in Holders THEN Cardinality(Holders) - 1 ELSE Cardinality(Holders)
  BY <1>5, FS_RemoveElement
<1>10. \A r \in Procs : semadj'[r]["mutex"] = IF r = q THEN 0 ELSE semadj[r]["mutex"]
  BY <1>0, <1>1
<1> QED
  BY <1>2, <1>3, <1>5, <1>6, <1>8, <1>9, <1>10

LEMMA UndoesStep == ASSUME LogTypes, Undoes, LogNext PROVE Undoes'
<1>1. DOMAIN at = Procs
  BY DEF LogTypes
<1>2. ASSUME NEW q \in DOMAIN at, Kill(q) PROVE Undoes'
  BY <1>1, <1>2, KillUndoes, Zenon
<1>3. ASSUME shared' = shared PROVE Undoes'
  <2>1. UNCHANGED <<hawk, sems, semadj, at>>
    BY <1>3 DEF shared
  <2>2. Holders' = Holders
    BY <2>1, Zenon DEF Holders, InStep
  <2> QED
    BY <2>1, <2>2, UndoesKept, Zenon
<1>4. CASE outputer \/ sigalrm_handler \/ Second
  BY <1>3, <1>4, Zenon DEF outputer, OpenFiles, Receive, LoadToken, StoreToken, WriteMsg, sigalrm_handler, Second
<1> QED
  BY <1>2, <1>4, CollectorUndoes, ProcessorUndoes, Zenon DEF LogNext

LEMMA UndoesStarts == ASSUME LogInit PROVE Undoes
<1>1. /\ at = [r \in Procs |-> IF r = Collector THEN "fopen" ELSE "P data"]
      /\ semadj = [r \in DOMAIN at |-> [s \in Semaphores |-> 0]]
      /\ sems = [s \in Semaphores |-> IF s = "mutex" THEN 1 ELSE IF s = "space" THEN MAX_LOGS ELSE 0]
  BY Zenon DEF LogInit, Procs
<1>2. sems["mutex"] = 1 /\ \A r \in Procs : semadj[r]["mutex"] = 0
  BY <1>1 DEF Semaphores
<1>3. Holders = {}
  BY <1>1 DEF Holders, InStep
<1> QED
  BY <1>2, <1>3, FS_EmptySet DEF Undoes
-----------------------------------------------------------------------------
(* Counting the copies of a line: in u blocks of the ring from r on, in    *)
(* the queue and in the files; each is a finite set that grows by one with *)
(* the line that is put in and shrinks by one with the line taken out.     *)
RingSet(b, r, u, n) == {i \in 0 .. u - 1 : b[(r + i) % MAX_LOGS] = n}
Same(a, b) == IF a = b THEN 1 ELSE 0

LEMMA SetAdd ==
  ASSUME NEW S, IsFiniteSet(S), NEW x, x \notin S
  PROVE  Cardinality(S \cup {x}) = Cardinality(S) + 1
  BY FS_AddElement

LEMMA SetCut ==
  ASSUME NEW S, IsFiniteSet(S), NEW x \in S
  PROVE  Cardinality(S \ {x}) = Cardinality(S) - 1
  BY FS_RemoveElement

(* Counted from the second place on, a set of places is as large. *)
LEMMA SetShift ==
  ASSUME NEW S, IsFiniteSet(S), S \subseteq Int, NEW T, T \subseteq Int,
         \A i \in Int : i \in T <=> i + 1 \in S
  PROVE  IsFiniteSet(T) /\ Cardinality(T) = Cardinality(S)
<1> DEFINE f == [i \in S |-> i - 1]
<1>1. f \in [S -> T]
  <2>1. \A i \in S : i - 1 \in T
    <3> TAKE i \in S
    <3>1. i \in Int /\ i - 1 \in Int /\ (i - 1) + 1 = i
      OBVIOUS
    <3> QED
      BY <3>1
  <2> QED
    BY <2>1
<1>2. \A a, b \in S : f[a] = f[b] => a = b
  OBVIOUS
<1>3. \A t \in T : \E a \in S : f[a] = t
  <2> TAKE t \in T
  <2>1. t + 1 \in S /\ (t + 1) - 1 = t
    OBVIOUS
  <2>2. f[t + 1] = t
    BY <2>1
  <2> QED
    BY <2>1, <2>2
<1>4. f \in Bijection(S, T)
  <2> HIDE DEF f
  <2> QED
    BY <1>1, <1>2, <1>3, Fun_IsBij
<1>5. ExistsBijection(S, T)
  BY <1>4, Zenon DEF ExistsBijection
<1> QED
  BY <1>5, FS_Bijection, Zenon

LEMMA RingFinite ==
  ASSUME NEW b, NEW r, NEW u \in Int, NEW n
  PROVE  IsFiniteSet(RingSet(b, r, u, n)) /\ Cardinality(RingSet(b, r, u, n)) \in Nat
<1>1. IsFiniteSet(0 .. u - 1)
  <2>1. 0 \in Int /\ u - 1 \in Int
    OBVIOUS
  <2> QED
    BY <2>1, FS_Interval, Zenon
<1>2. RingSet(b, r, u, n) \in SUBSET (0 .. u - 1)
  BY Zenon DEF RingSet
<1> QED
  BY <1>1, <1>2, FS_Subset, FS_CardinalityType, Zenon

(* Two places of the ring less than its length apart are different blocks. *)
LEMMA RingPlaces ==
  ASSUME NEW r \in 0 .. MAX_LOGS - 1, NEW i \in 0 .. MAX_LOGS - 1, NEW j \in 0 .. MAX_LOGS - 1, i # j
  PROVE  (r + i) % MAX_LOGS # (r + j) % MAX_LOGS
<1> PICK m \in Nat : m = MAX_LOGS /\ m > 0
  BY SizeFacts
<1>1. \A k \in 0 .. m - 1 : (r + k) % m = IF r + k < m THEN r + k ELSE r + k - m
  <2> TAKE k \in 0 .. m - 1
  <2>1. CASE r + k < m
    BY <2>1
  <2>2. CASE r + k >= m
    BY <2>2
  <2> QED
    BY <2>1, <2>2
<1> QED
  BY <1>1

LEMMA RingGrows ==
  ASSUME NEW b, NEW c, NEW r \in 0 .. MAX_LOGS - 1, NEW u \in 0 .. MAX_LOGS - 1, NEW v, NEW n,
         c[(r + u) % MAX_LOGS] = v,
         \A i \in 0 .. MAX_LOGS - 1 : i # (r + u) % MAX_LOGS => c[i] = b[i]
  PROVE  Cardinality(RingSet(c, r, u + 1, n)) = Cardinality(RingSet(b, r, u, n)) + Same(v, n)
<1> DEFINE w == (r + u) % MAX_LOGS
           S == RingSet(b, r, u, n)
           T == RingSet(c, r, u + 1, n)
<1>1. w \in 0 .. MAX_LOGS - 1 /\ \A i \in 0 .. u - 1 : (r + i) % MAX_LOGS \in 0 .. MAX_LOGS - 1
  BY SizeFacts
<1>2. \A i \in 0 .. u - 1 : (r + i) % MAX_LOGS # w
  <2> TAKE i \in 0 .. u - 1
  <2>1. i \in 0 .. MAX_LOGS - 1 /\ i # u
    BY SizeFacts
  <2> QED
    BY <2>1, RingPlaces, Zenon
<1>3. c[w] = v /\ \A i \in 0 .. u - 1 : c[(r + i) % MAX_LOGS] = b[(r + i) % MAX_LOGS]
  BY <1>1, <1>2, Zenon
<1>4. /\ \A i \in 0 .. u - 1 : i \in T <=> i \in S
      /\ u \in T <=> v = n
      /\ T \subseteq 0 .. u /\ S \subseteq 0 .. u - 1
  <2>1. \A i : i \in T <=> i \in 0 .. u /\ c[(r + i) % MAX_LOGS] = n
    BY DEF RingSet
  <2>2. \A i : i \in S <=> i \in 0 .. u - 1 /\ b[(r + i) % MAX_LOGS] = n
    BY DEF RingSet
  <2>3. 0 .. u - 1 \subseteq 0 .. u /\ u \in 0 .. u
    OBVIOUS
  <2> HIDE DEF S, T
  <2> QED
    BY <1>3, <2>1, <2>2, <2>3
<1>5. IsFiniteSet(S) /\ u \notin S /\ Cardinality(S) \in Nat
  <2>1. u \in Int /\ u \notin 0 .. u - 1
    OBVIOUS
  <2> QED
    BY <1>4, <2>1, RingFinite
<1>8. 0 .. u = (0 .. u - 1) \cup {u} /\ u \notin 0 .. u - 1
  OBVIOUS
<1> HIDE DEF S, T
<1>9. \A i : /\ i \in T => i \in S \/ i = u
             /\ i \in S => i \in T
  BY <1>4, <1>8, Zenon
<1>6. CASE v = n
  <2>1. T = S \cup {u}
    BY <1>4, <1>6, <1>9
  <2>2. Cardinality(T) = Cardinality(S) + 1
    BY <2>1, <1>5, SetAdd
  <2> QED
    BY <2>2, <1>6 DEF Same, S, T
<1>7. CASE v # n
  <2>1. T = S
    BY <1>4, <1>7, <1>9, Zenon
  <2>2. Cardinality(T) = Cardinality(S) + 0
    BY <2>1, <1>5
  <2> QED
    BY <2>2, <1>7 DEF Same, S, T
<1> QED
  BY <1>6, <1>7

LEMMA RingShrinks ==
  ASSUME NEW b, NEW r \in 0 .. MAX_LOGS - 1, NEW u \in 1 .. MAX_LOGS, NEW n
  PROVE  Cardinality(RingSet(b, r, u, n))
           = Cardinality(RingSet(b, (r + 1) % MAX_LOGS, u - 1, n)) + Same(b[r], n)
<1> DEFINE S == RingSet(b, r, u, n)
           T == RingSet(b, (r + 1) % MAX_LOGS, u - 1, n)
<1>1. /\ (r + 0) % MAX_LOGS = r
      /\ \A i \in 0 .. u - 2 : (((r + 1) % MAX_LOGS) + i) % MAX_LOGS = (r + (i + 1)) % MAX_LOGS
  <2> PICK m \in Nat : m = MAX_LOGS /\ m > 0
    BY SizeFacts
  <2>1. (r + 0) % m = r
    OBVIOUS
  <2>2. (r + 1) % m = IF r + 1 = m THEN 0 ELSE r + 1
    BY <2>1
  <2>3. ASSUME NEW i \in 0 .. u - 2 PROVE (((r + 1) % m) + i) % m = (r + (i + 1)) % m
    <3>1. CASE r + 1 # m
      BY <2>2, <3>1
    <3>2. CASE r + 1 = m
      <4>1. r + (i + 1) = m + i /\ i \in 0 .. m - 1
        BY <3>2
      <4>2. (m + i) % m = i /\ i % m = i
        BY <4>1
      <4> QED
        BY <2>2, <3>2, <4>1, <4>2
    <3> QED
      BY <3>1, <3>2
  <2> QED
    BY <2>1, <2>3
<1>2. /\ 0 \in S <=> b[r] = n
      /\ \A i \in 0 .. u - 2 : i \in T <=> i + 1 \in S
      /\ T \subseteq 0 .. u - 2 /\ S \subseteq 0 .. u - 1
  <2>1. \A i : i \in S <=> i \in 0 .. u - 1 /\ b[(r + i) % MAX_LOGS] = n
    BY DEF RingSet
  <2>2. \A i : i \in T <=> i \in 0 .. u - 2 /\ b[(((r + 1) % MAX_LOGS) + i) % MAX_LOGS] = n
    <3>1. (u - 1) - 1 = u - 2
      OBVIOUS
    <3> QED
      BY <3>1, Zenon DEF RingSet
  <2>3. 0 \in 0 .. u - 1 /\ \A i \in 0 .. u - 2 : i + 1 \in 0 .. u - 1
    OBVIOUS
  <2> HIDE DEF S, T
  <2>4. 0 \in S <=> b[r] = n
    BY <1>1, <2>1, <2>3, Zenon
  <2>5. ASSUME NEW i \in 0 .. u - 2 PROVE i \in T <=> i + 1 \in S
    BY <1>1, <2>1, <2>2, <2>3, Zenon
  <2> QED
    BY <2>1, <2>2, <2>4, <2>5, Zenon
<1>3. IsFiniteSet(S) /\ Cardinality(S) \in Nat
  BY RingFinite
<1> HIDE DEF S, T
<1>4. IsFiniteSet(S \ {0}) /\ Cardinality(S \ {0}) = Cardinality(S) - Same(b[r], n)
  BY <1>2, <1>3, FS_RemoveElement DEF Same
<1>5. \A i \in Int : i \in T <=> i + 1 \in S \ {0}
  <2> TAKE i \in Int
  <2>1. CASE i \in 0 .. u - 2
    <3>1. i + 1 # 0
      BY <2>1
    <3> QED
      BY <1>2, <2>1, <3>1
  <2>2. CASE i \notin 0 .. u - 2
    <3>1. i \notin T
      BY <1>2, <2>2
    <3>2. i + 1 \in 0 .. u - 1 => i + 1 = 0
      BY <2>2
    <3> QED
      BY <1>2, <3>1, <3>2
  <2> QED
    BY <2>1, <2>2
<1>6. S \ {0} \subseteq Int /\ T \subseteq Int
  BY <1>2
<1>7. Cardinality(T) = Cardinality(S \ {0})
  <2> PICK R : R = S \ {0}
    OBVIOUS
  <2> QED
    BY <1>4, <1>5, <1>6, SetShift
<1>8. Same(b[r], n) \in {0, 1}
  BY DEF Same
<1> QED
  BY <1>3, <1>4, <1>7, <1>8 DEF S, T

QueueSet(q, n) == {i \in DOMAIN q : q[i].mtext = n}
Entries(fs) == UNION {{f} \X DOMAIN fs[f] : f \in DOMAIN fs}
FileSet(fs, n) == {fi \in Entries(fs) : fs[fi[1]][fi[2]] = n}

LEMMA QueueFinite ==
  ASSUME NEW q \in Seq(Message), NEW n
  PROVE  IsFiniteSet(QueueSet(q, n)) /\ Cardinality(QueueSet(q, n)) \in Nat
<1>1. 1 \in Int /\ Len(q) \in Int /\ DOMAIN q = 1 .. Len(q)
  OBVIOUS
<1>2. IsFiniteSet(DOMAIN q)
  BY <1>1, FS_Interval, Zenon
<1>3. QueueSet(q, n) \in SUBSET DOMAIN q
  BY Zenon DEF QueueSet
<1> QED
  BY <1>2, <1>3, FS_Subset, FS_CardinalityType, Zenon

LEMMA QueueGrows ==
  ASSUME NEW q \in Seq(Message), NEW m \in Message, NEW n
  PROVE  Cardinality(QueueSet(Append(q, m), n)) = Cardinality(QueueSet(q, n)) + Same(m.mtext, n)
<1> DEFINE S == QueueSet(q, n)
           T == QueueSet(Append(q, m), n)
           e == Len(q) + 1
<1>1. /\ Len(q) \in Nat /\ DOMAIN q = 1 .. Len(q) /\ DOMAIN Append(q, m) = 1 .. e
      /\ (\A i \in 1 .. Len(q) : Append(q, m)[i] = q[i]) /\ Append(q, m)[e] = m
  BY AppendProperties
<1>2. 1 .. e = (1 .. Len(q)) \cup {e} /\ e \notin 1 .. Len(q)
  BY <1>1
<1>3. \A i : i \in T <=> i \in 1 .. e /\ Append(q, m)[i].mtext = n
  BY <1>1, Zenon DEF QueueSet
<1>4. \A i : i \in S <=> i \in 1 .. Len(q) /\ q[i].mtext = n
  BY <1>1, Zenon DEF QueueSet
<1>5. IsFiniteSet(S) /\ Cardinality(S) \in Nat
  BY QueueFinite
<1> HIDE DEF S, T, e
<1>6. /\ \A i : (i \in T => i \in S \/ i = e) /\ (i \in S => i \in T)
      /\ e \in T <=> m.mtext = n
      /\ e \notin S
  BY <1>1, <1>2, <1>3, <1>4, Zenon
<1>7. CASE m.mtext = n
  <2>1. T = S \cup {e}
    BY <1>6, <1>7
  <2>2. Cardinality(T) = Cardinality(S) + 1
    BY <2>1, <1>5, <1>6, SetAdd
  <2> QED
    BY <2>2, <1>7 DEF Same, S, T
<1>8. CASE m.mtext # n
  <2>1. T = S
    BY <1>6, <1>8, Zenon
  <2>2. Cardinality(T) = Cardinality(S) + 0
    BY <2>1, <1>5
  <2> QED
    BY <2>2, <1>8 DEF Same, S, T
<1> QED
  BY <1>7, <1>8

LEMMA QueueShrinks ==
  ASSUME NEW q \in Seq(Message), q # <<>>, NEW n
  PROVE  Cardinality(QueueSet(q, n)) = Cardinality(QueueSet(Tail(q), n)) + Same(Head(q).mtext, n)
<1> DEFINE S == QueueSet(q, n)
           T == QueueSet(Tail(q), n)
           l == Len(q)
<1>1. /\ l \in Nat /\ l > 0 /\ DOMAIN q = 1 .. l /\ Tail(q) \in Seq(Message) /\ Len(Tail(q)) = l - 1
      /\ \A i \in 1 .. l - 1 : Tail(q)[i] = q[i + 1]
  BY HeadTailProperties
<1>2. DOMAIN Tail(q) = 1 .. l - 1 /\ Head(q) = q[1]
  BY <1>1
<1>3. \A i : i \in T <=> i \in 1 .. l - 1 /\ Tail(q)[i].mtext = n
  BY <1>2, Zenon DEF QueueSet
<1>4. \A i : i \in S <=> i \in 1 .. l /\ q[i].mtext = n
  BY <1>1, Zenon DEF QueueSet
<1>5. IsFiniteSet(S) /\ Cardinality(S) \in Nat
  BY QueueFinite
<1> HIDE DEF S, T, l
<1>6. 1 \in S <=> Head(q).mtext = n
  <2>1. 1 \in 1 .. l
    BY <1>1
  <2> QED
    BY <1>2, <1>4, <2>1, Zenon
<1>7. IsFiniteSet(S \ {1}) /\ Cardinality(S \ {1}) = Cardinality(S) - Same(Head(q).mtext, n)
  BY <1>5, <1>6, FS_RemoveElement DEF Same
<1>8. S \ {1} \subseteq Int /\ T \subseteq Int
  BY <1>3, <1>4
<1>9. \A i \in Int : i \in T <=> i + 1 \in S \ {1}
  <2> TAKE i \in Int
  <2>1. CASE i \in 1 .. l - 1
    <3>1. i + 1 # 1 /\ i + 1 \in 1 .. l
      BY <1>1, <2>1
    <3>2. Tail(q)[i] = q[i + 1]
      BY <1>1, <2>1, Zenon
    <3>3. i \in T <=> i + 1 \in S
      BY <1>3, <1>4, <2>1, <3>1, <3>2, Zenon
    <3> QED
      BY <3>1, <3>3, Zenon
  <2>2. CASE i \notin 1 .. l - 1
    <3>1. i + 1 \in 1 .. l => i + 1 = 1
      BY <1>1, <2>2
    <3> QED
      BY <1>3, <1>4, <2>2, <3>1
  <2> QED
    BY <2>1, <2>2
<1>10. Cardinality(T) = Cardinality(S \ {1})
  <2> PICK R : R = S \ {1}
    OBVIOUS
  <2> QED
    BY <1>7, <1>8, <1>9, SetShift
<1>11. Same(Head(q).mtext, n) \in {0, 1}
  BY DEF Same
<1> QED
  BY <1>5, <1>7, <1>10, <1>11 DEF S, T

LEMMA InEntries ==
  ASSUME NEW fs \in [Kinds -> Seq(Nat)]
  PROVE  \A e : e \in Entries(fs) <=> \E f \in Kinds : \E i \in 1 .. Len(fs[f]) : e = <<f, i>>
<1>1. DOMAIN fs = Kinds /\ \A f \in Kinds : DOMAIN fs[f] = 1 .. Len(fs[f])
  OBVIOUS
<1>2. Entries(fs) = UNION {{f} \X (1 .. Len(fs[f])) : f \in Kinds}
  BY <1>1 DEF Entries
<1> QED
  BY <1>2

LEMMA EntryAt ==
  ASSUME NEW fs \in [Kinds -> Seq(Nat)], NEW f \in Kinds, NEW i
  PROVE  <<f, i>> \in Entries(fs) <=> i \in 1 .. Len(fs[f])
  BY InEntries

LEMMA EntriesFinite ==
  ASSUME NEW fs \in [Kinds -> Seq(Nat)]
  PROVE  IsFiniteSet(Entries(fs))
<1> DEFINE D(f) == {f} \X (1 .. Len(fs[f]))
<1>1. ASSUME NEW f \in Kinds PROVE IsFiniteSet(D(f))
  <2>1. 1 \in Int /\ Len(fs[f]) \in Int
    OBVIOUS
  <2> QED
    BY <2>1, FS_Interval, FS_Singleton, FS_Product, Zenon
<1>2. "info" \in Kinds /\ "warn" \in Kinds /\ "error" \in Kinds /\ "kernel" \in Kinds
  BY DEF Kinds
<1>3. IsFiniteSet(((D("info") \cup D("warn")) \cup D("error")) \cup D("kernel"))
  <2> HIDE DEF D
  <2> QED
    BY <1>1, <1>2, FS_Union, Zenon
<1>4. Entries(fs) \subseteq ((D("info") \cup D("warn")) \cup D("error")) \cup D("kernel")
  <2> SUFFICES ASSUME NEW e \in Entries(fs)
               PROVE  e \in ((D("info") \cup D("warn")) \cup D("error")) \cup D("kernel")
    BY Zenon
  <2>1. PICK f \in Kinds : \E i \in 1 .. Len(fs[f]) : e = <<f, i>>
    BY InEntries
  <2>2. e \in D(f)
    BY <2>1
  <2>3. f = "info" \/ f = "warn" \/ f = "error" \/ f = "kernel"
    BY <2>1 DEF Kinds
  <2> HIDE DEF D
  <2> QED
    BY <2>2, <2>3, Zenon
<1> QED
  BY <1>3, <1>4, FS_Subset, Zenon

LEMMA FilesFinite ==
  ASSUME NEW fs \in [Kinds -> Seq(Nat)], NEW n
  PROVE  IsFiniteSet(FileSet(fs, n)) /\ Cardinality(FileSet(fs, n)) \in Nat
<1>1. FileSet(fs, n) \in SUBSET Entries(fs)
  BY Zenon DEF FileSet
<1> QED
  BY <1>1, EntriesFinite, FS_Subset, FS_CardinalityType, Zenon

LEMMA FilesGrow ==
  ASSUME NEW fs \in [Kinds -> Seq(Nat)], NEW k \in Kinds, NEW t \in Nat, NEW n
  PROVE  Cardinality(FileSet([fs EXCEPT ![k] = Append(fs[k], t)], n)) = Cardinality(FileSet(fs, n)) + Same(t, n)
<1> DEFINE gs == [fs EXCEPT ![k] = Append(fs[k], t)]
           S == FileSet(fs, n)
           T == FileSet(gs, n)
           l == Len(fs[k])
           e == <<k, l + 1>>
<1>0. /\ fs[k] \in Seq(Nat) /\ l \in Nat /\ Append(fs[k], t) \in Seq(Nat) /\ Len(Append(fs[k], t)) = l + 1
      /\ (\A i \in 1 .. l : Append(fs[k], t)[i] = fs[k][i]) /\ Append(fs[k], t)[l + 1] = t
  BY AppendProperties
<1>1. /\ gs \in [Kinds -> Seq(Nat)] /\ gs[k] = Append(fs[k], t)
      /\ \A f \in Kinds : f # k => gs[f] = fs[f]
  BY <1>0
<1>2. \A f \in Kinds : \A i : <<f, i>> \in S <=> i \in 1 .. Len(fs[f]) /\ fs[f][i] = n
  <2> TAKE f \in Kinds
  <2> TAKE i
  <2>1. <<f, i>> \in Entries(fs) <=> i \in 1 .. Len(fs[f])
    BY InEntries
  <2>2. <<f, i>>[1] = f /\ <<f, i>>[2] = i
    OBVIOUS
  <2> QED
    BY <2>1, <2>2, Zenon DEF FileSet
<1>3. \A f \in Kinds : \A i : <<f, i>> \in T <=> i \in 1 .. Len(gs[f]) /\ gs[f][i] = n
  <2> HIDE DEF gs
  <2> TAKE f \in Kinds
  <2> TAKE i
  <2>1. <<f, i>> \in Entries(gs) <=> i \in 1 .. Len(gs[f])
    BY <1>1, EntryAt, Zenon
  <2>2. <<f, i>>[1] = f /\ <<f, i>>[2] = i
    OBVIOUS
  <2> QED
    BY <2>1, <2>2, Zenon DEF FileSet
<1>4. /\ \A x \in S : \E f \in Kinds, i \in Nat : x = <<f, i>>
      /\ \A x \in T : \E f \in Kinds, i \in Nat : x = <<f, i>>
  <2> HIDE DEF gs
  <2>1. \A g \in [Kinds -> Seq(Nat)] : \A x \in FileSet(g, n) : \E f \in Kinds, i \in Nat : x = <<f, i>>
    <3> TAKE g \in [Kinds -> Seq(Nat)]
    <3> TAKE x \in FileSet(g, n)
    <3>1. x \in Entries(g)
      BY Zenon DEF FileSet
    <3>2. PICK f \in Kinds : \E i \in 1 .. Len(g[f]) : x = <<f, i>>
      BY <3>1, InEntries, ZenonT(60)
    <3> QED
      BY <3>2
  <2> QED
    BY <1>1, <2>1, Zenon
<1>5. IsFiniteSet(S) /\ Cardinality(S) \in Nat
  BY FilesFinite
<1> HIDE DEF S, T, gs, l
<1>6. \A f \in Kinds, i \in Nat : <<f, i>> # e => (<<f, i>> \in T <=> <<f, i>> \in S)
  <2> TAKE f \in Kinds, i \in Nat
  <2>1. CASE f # k
    BY <2>1, <1>1, <1>2, <1>3, Zenon
  <2>2. CASE f = k
    <3> SUFFICES ASSUME i # l + 1 PROVE <<k, i>> \in T <=> <<k, i>> \in S
      BY <2>2
    <3>1. i \in 1 .. l + 1 <=> i \in 1 .. l
      BY <1>0
    <3>2. /\ <<k, i>> \in S <=> i \in 1 .. l /\ fs[k][i] = n
          /\ <<k, i>> \in T <=> i \in 1 .. l + 1 /\ Append(fs[k], t)[i] = n
      BY <1>0, <1>1, <1>2, <1>3, ZenonT(60) DEF l
    <3> QED
      BY <1>0, <3>1, <3>2, Zenon
  <2> QED
    BY <2>1, <2>2
<1>7. e \notin S /\ (e \in T <=> t = n)
  <2>1. l + 1 \notin 1 .. l /\ l + 1 \in 1 .. l + 1
    BY <1>0
  <2>2. /\ e \in S <=> l + 1 \in 1 .. l /\ fs[k][l + 1] = n
        /\ e \in T <=> l + 1 \in 1 .. l + 1 /\ Append(fs[k], t)[l + 1] = n
    BY <1>0, <1>1, <1>2, <1>3, ZenonT(60) DEF l
  <2> QED
    BY <1>0, <2>1, <2>2, Zenon
<1> HIDE DEF e
<1>8. \A x : (x \in T => x \in S \/ x = e) /\ (x \in S => x \in T)
  <2> SUFFICES ASSUME NEW x, x # e PROVE x \in T <=> x \in S
    BY <1>7, Zenon
  <2>1. ASSUME NEW f \in Kinds, NEW i \in Nat, x = <<f, i>> PROVE x \in T <=> x \in S
    BY <1>6, <2>1, Zenon
  <2> QED
    BY <1>4, <2>1, Zenon
<1>9. CASE t = n
  <2>1. T = S \cup {e}
    BY <1>7, <1>8, <1>9
  <2>2. Cardinality(T) = Cardinality(S) + 1
    BY <2>1, <1>5, <1>7, SetAdd
  <2> QED
    BY <2>2, <1>9 DEF Same, S, T, gs
<1>10. CASE t # n
  <2>1. T = S
    BY <1>7, <1>8, <1>10, Zenon
  <2>2. Cardinality(T) = Cardinality(S) + 0
    BY <2>1, <1>5
  <2> QED
    BY <2>2, <1>10 DEF Same, S, T, gs
<1> QED
  BY <1>9, <1>10
-----------------------------------------------------------------------------
(* The terms of Places and of Unread by name, and what one step of one     *)
(* process does to each.                                                   *)
Working == {"V mutex", "V space", "msgsnd"}
Readers == Count({"P mutex", "read"})
Returning == Count({"V mutex", "V space"})
Filled == IF at[Collector] \in {"V mutex", "V data"} THEN 1 ELSE 0
Claimed == IF at[Collector] \in {"P mutex", "write"} THEN 1 ELSE 0
OnHand(n) == IF line = n /\ at[Collector] \in {"P space", "P mutex", "write"} THEN 1 ELSE 0
InRing(n) == Cardinality(RingSet(blocks, read_pos, Unread, n))
WorkSet(n) == {q \in Processors : raw_log[q] = n /\ at[q] \in Working}
InWork(n) == Cardinality(WorkSet(n))
InQueue(n) == Cardinality(QueueSet(msgs, n))
AtOut(n) == IF opc \in {"take", "store", "write"} /\ msg.mtext = n THEN 1 ELSE 0
InFiles(n) == Cardinality(FileSet(files, n))

(* Every block of the ring is free, claimed, unread or about to be given   *)
(* back, and every line collected so far is in one place.                  *)
Books ==
  /\ sems["space"] + Unread + Claimed + Returning = MAX_LOGS
  /\ write_pos = (read_pos + Unread) % MAX_LOGS
  /\ \A n \in Nat \ {0} : Places(n) = IF n \in Collected THEN 1 ELSE 0

LEMMA PlacesSum ==
  \A n : Places(n) = OnHand(n) + InRing(n) + InWork(n) + InQueue(n) + AtOut(n) + InFiles(n)
  BY Zenon DEF Places, OnHand, InRing, InWork, WorkSet, Working, InQueue, AtOut, InFiles, RingSet, QueueSet,
               FileSet, Entries, InStep

LEMMA PlacesSumNext ==
  ASSUME NEW n
  PROVE  Places(n)' = OnHand(n)' + InRing(n)' + InWork(n)' + InQueue(n)' + AtOut(n)' + InFiles(n)'
  BY Zenon DEF Places, OnHand, InRing, InWork, WorkSet, Working, InQueue, AtOut, InFiles, RingSet, QueueSet,
               FileSet, Entries, InStep

LEMMA UnreadSum == Unread = sems["data"] + Readers + Filled
  BY Zenon DEF Unread, Readers, Filled, InStep

LEMMA UnreadSumNext == Unread' = sems'["data"] + Readers' + Filled'
  BY Zenon DEF Unread, Readers, Filled, InStep

LEMMA CountNat ==
  ASSUME LogTypes, NEW L
  PROVE  Count(L) \in Nat /\ IsFiniteSet({q \in Processors : at[q] \in L})
<1>1. IsFiniteSet(Processors)
  BY ProcsFacts, Zenon DEF LogTypes
<1>2. {q \in Processors : at[q] \in L} \in SUBSET Processors
  BY Zenon
<1>3. Count(L) = Cardinality({q \in Processors : at[q] \in L})
  BY Zenon DEF Count, InStep
<1> QED
  BY <1>1, <1>2, <1>3, FS_Subset, FS_CardinalityType, Zenon

LEMMA CountMoves ==
  ASSUME LogTypes, NEW p \in Processors, NEW to, at' = [at EXCEPT ![p] = to], hawk' = hawk, NEW L
  PROVE  /\ Count(L) \in Nat /\ (at[p] \in L => Count(L) >= 1)
         /\ Count(L)' = IF at[p] \in L THEN (IF to \in L THEN Count(L) ELSE Count(L) - 1)
                                       ELSE (IF to \in L THEN Count(L) + 1 ELSE Count(L))
<1> DEFINE S == {q \in Processors : at[q] \in L}
           T == {q \in Processors : at'[q] \in L}
<1>1. Processors' = Processors
  BY DEF Processors
<1>2. Count(L) = Cardinality(S) /\ Count(L)' = Cardinality(T)
  BY <1>1, Zenon DEF Count, InStep
<1>3. IsFiniteSet(S) /\ Cardinality(S) \in Nat
  BY <1>2, CountNat
<1>4. \A q \in Processors : at'[q] = IF q = p THEN to ELSE at[q]
  <2>1. at \in [Procs -> Stations] /\ Processors \subseteq Procs
    BY ProcsFacts, Zenon DEF LogTypes
  <2> QED
    BY <2>1
<1>5. T = IF to \in L THEN S \cup {p} ELSE S \ {p}
  BY <1>4
<1>6. p \in S <=> at[p] \in L
  OBVIOUS
<1> HIDE DEF S, T
<1>7. /\ Cardinality(S \cup {p}) = IF p \in S THEN Cardinality(S) ELSE Cardinality(S) + 1
      /\ Cardinality(S \ {p}) = IF p \in S THEN Cardinality(S) - 1 ELSE Cardinality(S)
      /\ Cardinality(S \ {p}) \in Nat
  BY <1>3, FS_AddElement, FS_RemoveElement, FS_CardinalityType
<1>8. at[p] \in L => Cardinality(S) >= 1
  BY <1>3, <1>6, <1>7
<1> QED
  BY <1>2, <1>3, <1>5, <1>6, <1>7, <1>8

LEMMA CountStays ==
  ASSUME LogTypes, NEW to, at' = [at EXCEPT ![Collector] = to] \/ at' = at, hawk' = hawk, NEW L
  PROVE  Count(L)' = Count(L)
<1>1. Processors' = Processors
  BY DEF Processors
<1>2. at \in [Procs -> Stations] /\ Processors \subseteq Procs /\ Collector \notin Processors
  BY ProcsFacts, Zenon DEF LogTypes
<1>3. \A q \in Processors : at'[q] = at[q]
  BY <1>2
<1>4. {q \in Processors : at'[q] \in L} = {q \in Processors : at[q] \in L}
  BY <1>3
<1> QED
  BY <1>1, <1>4, Zenon DEF Count, InStep

(* What a step of a processor does to the counts. *)
LEMMA ProcessorMoves ==
  ASSUME LogTypes, NEW p \in Processors, NEW to, at' = [at EXCEPT ![p] = to], hawk' = hawk
  PROVE  Filled' = Filled /\ Claimed' = Claimed /\ at'[Collector] = at[Collector] /\ at'[p] = to
<1>1. at \in [Procs -> Stations] /\ Processors \subseteq Procs /\ Collector \notin Processors /\ Collector \in Procs
  BY ProcsFacts, Zenon DEF LogTypes
<1>2. at'[Collector] = at[Collector] /\ at'[p] = to
  BY <1>1
<1> QED
  BY <1>2, Zenon DEF Filled, Claimed

LEMMA CollectorMoves ==
  ASSUME LogTypes, NEW to, at' = [at EXCEPT ![Collector] = to], hawk' = hawk
  PROVE  Readers' = Readers /\ Returning' = Returning /\ at'[Collector] = to
<1>1. at \in [Procs -> Stations] /\ Collector \in Procs
  BY ProcsFacts, Zenon DEF LogTypes
<1> QED
  BY <1>1, CountStays DEF Readers, Returning

LEMMA WorkFinite == ASSUME LogTypes, NEW n PROVE IsFiniteSet(WorkSet(n)) /\ Cardinality(WorkSet(n)) \in Nat
<1>1. IsFiniteSet(Processors)
  BY ProcsFacts, Zenon DEF LogTypes
<1>2. WorkSet(n) \in SUBSET Processors
  BY Zenon DEF WorkSet
<1> QED
  BY <1>1, <1>2, FS_Subset, FS_CardinalityType, Zenon

LEMMA WorkSame ==
  ASSUME LogTypes, NEW p \in Processors, NEW to, at' = [at EXCEPT ![p] = to], hawk' = hawk, raw_log' = raw_log,
         at[p] \in Working <=> to \in Working, NEW n
  PROVE  InWork(n)' = InWork(n)
<1>1. Processors' = Processors
  BY DEF Processors
<1>2. at \in [Procs -> Stations] /\ Processors \subseteq Procs
  BY ProcsFacts, Zenon DEF LogTypes
<1>3. \A q \in Processors : at'[q] = IF q = p THEN to ELSE at[q]
  BY <1>2
<1>4. \A q \in Processors : at'[q] \in Working <=> at[q] \in Working
  BY <1>3, Zenon
<1>5. WorkSet(n)' = {q \in Processors : raw_log[q] = n /\ at'[q] \in Working}
  BY <1>1, Zenon DEF WorkSet, Working
<1>6. WorkSet(n)' = WorkSet(n)
  BY <1>4, <1>5 DEF WorkSet
<1> QED
  BY <1>6, Zenon DEF InWork

(* A processor takes a line on, or hands its line on. *)
LEMMA WorkTaken ==
  ASSUME LogTypes, NEW p \in Processors, NEW to, at' = [at EXCEPT ![p] = to], hawk' = hawk,
         NEW v, raw_log' = [raw_log EXCEPT ![p] = v], at[p] \notin Working, to \in Working, NEW n
  PROVE  InWork(n)' = InWork(n) + Same(v, n)
<1>1. Processors' = Processors
  BY DEF Processors
<1>2. at \in [Procs -> Stations] /\ Processors \subseteq Procs /\ raw_log \in [Processors -> Nat]
  BY ProcsFacts, Zenon DEF LogTypes
<1>3. \A q \in Processors : /\ at'[q] = IF q = p THEN to ELSE at[q]
                            /\ raw_log'[q] = IF q = p THEN v ELSE raw_log[q]
  BY <1>2
<1>4. IsFiniteSet(WorkSet(n)) /\ Cardinality(WorkSet(n)) \in Nat
  BY WorkFinite
<1>5. WorkSet(n)' = {q \in Processors : raw_log'[q] = n /\ at'[q] \in Working}
  BY <1>1, Zenon DEF WorkSet, Working
<1>6. p \notin WorkSet(n)
  BY Zenon DEF WorkSet
<1>7. CASE v = n
  <2>1. WorkSet(n)' = WorkSet(n) \cup {p}
    BY <1>3, <1>5, <1>7 DEF WorkSet
  <2>2. Cardinality(WorkSet(n)') = Cardinality(WorkSet(n)) + 1
    BY <1>4, <1>6, <2>1, SetAdd
  <2> QED
    BY <1>7, <2>2, Zenon DEF InWork, Same
<1>8. CASE v # n
  <2>1. WorkSet(n)' = WorkSet(n)
    BY <1>3, <1>5, <1>8 DEF WorkSet
  <2>2. Cardinality(WorkSet(n)') = Cardinality(WorkSet(n)) + 0
    BY <1>4, <2>1
  <2> QED
    BY <1>8, <2>2, Zenon DEF InWork, Same
<1> QED
  BY <1>7, <1>8

LEMMA WorkHanded ==
  ASSUME LogTypes, NEW p \in Processors, NEW to, at' = [at EXCEPT ![p] = to], hawk' = hawk,
         raw_log' = raw_log, at[p] \in Working, to \notin Working, NEW n
  PROVE  InWork(n) = InWork(n)' + Same(raw_log[p], n) /\ InWork(n)' \in Nat
<1>1. Processors' = Processors
  BY DEF Processors
<1>2. at \in [Procs -> Stations] /\ Processors \subseteq Procs
  BY ProcsFacts, Zenon DEF LogTypes
<1>3. \A q \in Processors : at'[q] = IF q = p THEN to ELSE at[q]
  BY <1>2
<1>4. IsFiniteSet(WorkSet(n)) /\ Cardinality(WorkSet(n)) \in Nat
  BY WorkFinite
<1>5. WorkSet(n)' = {q \in Processors : raw_log[q] = n /\ at'[q] \in Working}
  BY <1>1, Zenon DEF WorkSet, Working
<1>6. WorkSet(n)' = WorkSet(n) \ {p}
  BY <1>3, <1>5 DEF WorkSet
<1>7. IsFiniteSet(WorkSet(n) \ {p}) /\ Cardinality(WorkSet(n) \ {p}) \in Nat
  BY <1>4, FS_RemoveElement, FS_CardinalityType
<1>8. CASE raw_log[p] = n
  <2>1. p \in WorkSet(n)
    BY <1>8, Zenon DEF WorkSet
  <2>2. Cardinality(WorkSet(n)) = Cardinality(WorkSet(n) \ {p}) + 1
    BY <1>4, <2>1, SetCut
  <2> QED
    BY <1>6, <1>7, <1>8, <2>2, Zenon DEF InWork, Same
<1>9. CASE raw_log[p] # n
  <2>1. WorkSet(n) \ {p} = WorkSet(n)
    BY <1>9 DEF WorkSet
  <2>2. Cardinality(WorkSet(n)) = Cardinality(WorkSet(n) \ {p}) + 0
    BY <1>4, <2>1
  <2> QED
    BY <1>6, <1>7, <1>9, <2>2, Zenon DEF InWork, Same
<1> QED
  BY <1>8, <1>9

LEMMA WorkStays ==
  ASSUME LogTypes, NEW to, at' = [at EXCEPT ![Collector] = to] \/ at' = at, hawk' = hawk, raw_log' = raw_log, NEW n
  PROVE  InWork(n)' = InWork(n)
<1>1. Processors' = Processors
  BY DEF Processors
<1>2. at \in [Procs -> Stations] /\ Processors \subseteq Procs /\ Collector \notin Processors
  BY ProcsFacts, Zenon DEF LogTypes
<1>3. \A q \in Processors : at'[q] = at[q]
  BY <1>2
<1>4. WorkSet(n)' = WorkSet(n)
  BY <1>1, <1>3 DEF WorkSet, Working
<1> QED
  BY <1>4, Zenon DEF InWork

LEMMA TermsNat ==
  ASSUME LogTypes, NEW n
  PROVE  /\ OnHand(n) \in Nat /\ InRing(n) \in Nat /\ InWork(n) \in Nat /\ InQueue(n) \in Nat /\ AtOut(n) \in Nat
         /\ InFiles(n) \in Nat /\ Readers \in Nat /\ Returning \in Nat /\ Filled \in Nat /\ Claimed \in Nat
         /\ Unread \in Nat /\ sems["data"] \in Nat /\ sems["space"] \in Nat
<1>1. sems["data"] \in Nat /\ sems["space"] \in Nat
  BY DEF LogTypes, Semaphores
<1>2. Readers \in Nat /\ Returning \in Nat
  BY CountNat DEF Readers, Returning
<1>3. Filled \in Nat /\ Claimed \in Nat /\ OnHand(n) \in Nat /\ AtOut(n) \in Nat
  BY DEF Filled, Claimed, OnHand, AtOut
<1>4. Unread \in Nat
  BY <1>1, <1>2, <1>3, UnreadSum
<1>5. InRing(n) \in Nat
  BY <1>4, RingFinite DEF InRing
<1>6. InWork(n) \in Nat
  BY WorkFinite DEF InWork
<1>7. InQueue(n) \in Nat /\ InFiles(n) \in Nat
  <2>1. msgs \in Seq(Message) /\ files \in [Kinds -> Seq(Nat)]
    BY Zenon DEF LogTypes
  <2> QED
    BY <2>1, QueueFinite, FilesFinite, Zenon DEF InQueue, InFiles
<1> QED
  BY <1>1, <1>2, <1>3, <1>4, <1>5, <1>6, <1>7
-----------------------------------------------------------------------------
(* A step that collects no line leaves each where it is or moves it. *)
LEMMA Balance ==
  ASSUME LogTypes, Books, hawk' = hawk, line' = line,
         sems'["space"] + Unread' + Claimed' + Returning' = MAX_LOGS,
         write_pos' = (read_pos' + Unread') % MAX_LOGS,
         \A n \in Nat \ {0} : Places(n)' = Places(n)
  PROVE  Books'
<1>1. Collected' = Collected
  BY Zenon DEF Collected
<1>2. \A n \in Nat \ {0} : Places(n)' = IF n \in Collected' THEN 1 ELSE 0
  BY <1>1 DEF Books
<1> QED
  BY <1>2, Zenon DEF Books

(* What a semaphore operation does that is on the mutex or not refused.    *)
LEMMA SemEffect ==
  ASSUME LogTypes, NEW q \in Procs, NEW from, NEW s \in Semaphores, NEW op, NEW to, SemStep(q, from, s, op, to),
         s # "mutex" => ~Refused(q, s, op)
  PROVE  /\ at[q] = from /\ at' = [at EXCEPT ![q] = to]
         /\ s # "mutex" => sems'[s] = sems[s] + op
         /\ \A t \in Semaphores : t # s => sems'[t] = sems[t]
         /\ UNCHANGED <<hawk, ringState, line, raw_log, msgs, outState>>
<1>1. sems \in [Semaphores -> Nat]
  BY Zenon DEF LogTypes
<1>2. (s = "mutex" /\ sems' = sems) \/ sems' = [sems EXCEPT ![s] = sems[s] + op]
  BY <1>1 DEF SemStep, Semop
<1>3. /\ s # "mutex" => sems'[s] = sems[s] + op
      /\ \A t \in Semaphores : t # s => sems'[t] = sems[t]
  BY <1>1, <1>2
<1>4. at[q] = from /\ at' = [at EXCEPT ![q] = to] /\ UNCHANGED <<hawk, ringState, line, raw_log, msgs, outState>>
  BY Zenon DEF SemStep, Goes
<1> QED
  BY <1>3, <1>4, Zenon

UndoneBy(q, s, op) ==
  \A r \in Procs :
    /\ semadj'[r]["space"] = IF r = q /\ s = "space" THEN semadj[r]["space"] - op ELSE semadj[r]["space"]
    /\ semadj'[r]["data"] = IF r = q /\ s = "data" THEN semadj[r]["data"] - op ELSE semadj[r]["data"]

LEMMA UndoEffect ==
  ASSUME LogTypes, NEW q \in Procs, NEW from, NEW s \in Semaphores, NEW op \in Int, NEW to,
         SemStep(q, from, s, op, to), s # "mutex" => ~Refused(q, s, op)
  PROVE  hawk.sem.SEM_UNDO => UndoneBy(q, s, op)
<1> SUFFICES ASSUME hawk.sem.SEM_UNDO
             PROVE  \A r \in Procs, t \in {"space", "data"} :
                      semadj'[r][t] = IF r = q /\ t = s THEN semadj[r][t] - op ELSE semadj[r][t]
  BY DEF UndoneBy
<1>1. semadj \in [Procs -> [Semaphores -> Int]] /\ {"space", "data"} \subseteq Semaphores
  BY Zenon DEF LogTypes, Semaphores
<1>2. (s = "mutex" /\ semadj' = semadj) \/ semadj' = [semadj EXCEPT ![q][s] = semadj[q][s] - op]
  BY <1>1 DEF SemStep, Semop
<1>3. CASE s = "mutex" /\ semadj' = semadj
  BY <1>3
<1>4. CASE semadj' = [semadj EXCEPT ![q][s] = semadj[q][s] - op]
  <2>1. semadj[q] \in [Semaphores -> Int]
    BY <1>1
  <2>2. \A r \in Procs : semadj'[r] = IF r = q THEN [semadj[q] EXCEPT ![s] = semadj[q][s] - op] ELSE semadj[r]
    BY <1>1, <1>4
  <2>3. \A t \in Semaphores :
          [semadj[q] EXCEPT ![s] = semadj[q][s] - op][t] = IF t = s THEN semadj[q][t] - op ELSE semadj[q][t]
    BY <2>1
  <2> QED
    BY <1>1, <2>2, <2>3
<1> QED
  BY <1>2, <1>3, <1>4

LEMMA SemBooks ==
  ASSUME LogTypes, Books, UNCHANGED <<hawk, ringState, line, raw_log, msgs, outState>>,
         Unread' = Unread,
         sems'["space"] + Claimed' + Returning' = sems["space"] + Claimed + Returning,
         Claimed' \in Nat, Returning' \in Nat, sems'["space"] \in Nat,
         \A n \in Nat \ {0} : OnHand(n)' = OnHand(n) /\ InWork(n)' = InWork(n)
  PROVE  Books'
<1>1. \A n \in Nat \ {0} : Places(n)' = Places(n)
  <2> TAKE n \in Nat \ {0}
  <2>1. InRing(n)' = InRing(n)
    BY Zenon DEF InRing, ringState
  <2>2. InQueue(n)' = InQueue(n) /\ AtOut(n)' = AtOut(n) /\ InFiles(n)' = InFiles(n)
    BY Zenon DEF InQueue, AtOut, InFiles, outState
  <2> QED
    BY <2>1, <2>2, PlacesSum, PlacesSumNext, Zenon
<1>2. write_pos' = (read_pos' + Unread') % MAX_LOGS
  BY Zenon DEF Books, ringState
<1>3. sems'["space"] + Unread' + Claimed' + Returning' = MAX_LOGS
  <2>1. sems["space"] + Unread + Claimed + Returning = MAX_LOGS
    BY Zenon DEF Books
  <2>2. sems["space"] \in Nat /\ Unread \in Nat /\ Claimed \in Nat /\ Returning \in Nat
    BY TermsNat
  <2> QED
    BY <2>1, <2>2
<1> QED
  BY <1>1, <1>2, <1>3, Balance, Zenon

CollectorOp(from, s, op, to) ==
  \/ s = "space" /\ op = -1 /\ from = "P space" /\ to \in {"P mutex", "write"}
  \/ s = "mutex" /\ op = -1 /\ from = "P mutex" /\ to = "write"
  \/ s = "mutex" /\ op = 1 /\ from = "V mutex" /\ to = "V data"
  \/ s = "data" /\ op = 1 /\ from = "V data" /\ to = "fgets"

LEMMA CollectorSem ==
  ASSUME LogTypes, Books, NEW from, NEW s, NEW op, NEW to,
         SemStep(Collector, from, s, op, to), CollectorOp(from, s, op, to),
         s # "mutex" => ~Refused(Collector, s, op)
  PROVE  Books'
<1>0. Collector \in Procs
  BY ProcsFacts, Zenon DEF LogTypes
<1>o. s \in Semaphores /\ op \in {-1, 1} /\ to \in Stations
  BY DEF CollectorOp, Semaphores, Stations
<1>1. /\ at[Collector] = from /\ at' = [at EXCEPT ![Collector] = to]
      /\ s # "mutex" => sems'[s] = sems[s] + op
      /\ \A t \in Semaphores : t # s => sems'[t] = sems[t]
      /\ UNCHANGED <<hawk, ringState, line, raw_log, msgs, outState>>
  BY <1>0, <1>o, SemEffect, Zenon
<1>2. Readers' = Readers /\ Returning' = Returning /\ at'[Collector] = to
  BY <1>1, CollectorMoves
<1>3. \A n \in Nat \ {0} : OnHand(n)' = OnHand(n)
  <2>1. line' = line
    BY <1>1
  <2>2. from \in {"P space", "P mutex", "write"} <=> to \in {"P space", "P mutex", "write"}
    BY DEF CollectorOp
  <2> QED
    BY <1>1, <1>2, <2>1, <2>2 DEF OnHand
<1>4. \A n \in Nat \ {0} : InWork(n)' = InWork(n)
  BY <1>1, WorkStays
<1>5. /\ Filled = (IF from \in {"V mutex", "V data"} THEN 1 ELSE 0)
      /\ Filled' = (IF to \in {"V mutex", "V data"} THEN 1 ELSE 0)
      /\ Claimed = (IF from \in {"P mutex", "write"} THEN 1 ELSE 0)
      /\ Claimed' = (IF to \in {"P mutex", "write"} THEN 1 ELSE 0)
  BY <1>1, <1>2, Zenon DEF Filled, Claimed
<1>6. "space" \in Semaphores /\ "data" \in Semaphores
  BY DEF Semaphores
<1>7. sems' \in [Semaphores -> Nat]
  <2>1. LogTypes'
    BY <1>0, <1>o, SemTypes, Zenon
  <2> QED
    BY <2>1, Zenon DEF LogTypes
<1>8. sems["data"] \in Nat /\ sems["space"] \in Nat /\ Readers \in Nat /\ Returning \in Nat
  BY TermsNat
<1>9. sems'["data"] \in Nat /\ sems'["space"] \in Nat
  BY <1>6, <1>7
<1>n. /\ sems'["data"] + Filled' = sems["data"] + Filled
      /\ sems'["space"] + Claimed' = sems["space"] + Claimed
      /\ Filled \in Nat /\ Claimed \in Nat /\ Filled' \in Nat /\ Claimed' \in Nat
  <2>1. CASE s = "space" /\ op = -1 /\ from = "P space" /\ to \in {"P mutex", "write"}
    <3>1. sems'["space"] = sems["space"] + -1 /\ sems'["data"] = sems["data"]
      BY <1>1, <1>6, <2>1
    <3>2. Filled = 0 /\ Filled' = 0 /\ Claimed = 0 /\ Claimed' = 1
      BY <1>5, <2>1
    <3> QED
      BY <3>1, <3>2, <1>8
  <2>2. CASE s = "mutex" /\ op = -1 /\ from = "P mutex" /\ to = "write"
    <3>1. sems'["space"] = sems["space"] /\ sems'["data"] = sems["data"]
      BY <1>1, <1>6, <2>2
    <3>2. Filled = 0 /\ Filled' = 0 /\ Claimed = 1 /\ Claimed' = 1
      BY <1>5, <2>2
    <3> QED
      BY <3>1, <3>2, <1>8
  <2>3. CASE s = "mutex" /\ op = 1 /\ from = "V mutex" /\ to = "V data"
    <3>1. sems'["space"] = sems["space"] /\ sems'["data"] = sems["data"]
      BY <1>1, <1>6, <2>3
    <3>2. Filled = 1 /\ Filled' = 1 /\ Claimed = 0 /\ Claimed' = 0
      BY <1>5, <2>3
    <3> QED
      BY <3>1, <3>2, <1>8
  <2>4. CASE s = "data" /\ op = 1 /\ from = "V data" /\ to = "fgets"
    <3>1. sems'["space"] = sems["space"] /\ sems'["data"] = sems["data"] + 1
      BY <1>1, <1>6, <2>4
    <3>2. Filled = 1 /\ Filled' = 0 /\ Claimed = 0 /\ Claimed' = 0
      BY <1>5, <2>4
    <3> QED
      BY <3>1, <3>2, <1>8
  <2> QED
    BY <2>1, <2>2, <2>3, <2>4, Zenon DEF CollectorOp
<1>r. Readers' = Readers /\ Returning' = Returning
  BY <1>2
<1>10. Unread' = Unread
  <2>1. Unread = sems["data"] + Readers + Filled /\ Unread' = sems'["data"] + Readers + Filled'
    BY <1>r, UnreadSum, UnreadSumNext, Zenon
  <2>2. Readers \in Nat /\ sems["data"] \in Nat /\ sems'["data"] \in Nat /\ Filled \in Nat /\ Filled' \in Nat
    BY <1>8, <1>9, <1>n, Zenon
  <2>3. sems'["data"] + Filled' = sems["data"] + Filled
    BY <1>n
  <2> QED
    BY <2>1, <2>2, <2>3
<1>11. sems'["space"] + Claimed' + Returning' = sems["space"] + Claimed + Returning
  BY <1>r, <1>8, <1>9, <1>n
<1>12. Claimed' \in Nat
  BY <1>n
<1> QED
  BY <1>1, <1>2, <1>3, <1>4, <1>8, <1>9, <1>10, <1>11, <1>12, SemBooks, Zenon

ProcessorOp(from, s, op, to) ==
  \/ s = "data" /\ op = -1 /\ from = "P data" /\ to = "P mutex"
  \/ s = "mutex" /\ op = -1 /\ from = "P mutex" /\ to = "read"
  \/ s = "mutex" /\ op = 1 /\ from = "V mutex" /\ to = "V space"
  \/ s = "space" /\ op = 1 /\ from = "V space" /\ to = "msgsnd"

LEMMA ProcessorSem ==
  ASSUME LogTypes, Books, NEW p \in Processors, NEW from, NEW s, NEW op, NEW to,
         SemStep(p, from, s, op, to), ProcessorOp(from, s, op, to),
         s # "mutex" => ~Refused(p, s, op)
  PROVE  Books'
<1>0. p \in Procs
  BY ProcsFacts DEF LogTypes
<1>o. s \in Semaphores /\ op \in {-1, 1} /\ to \in Stations
  BY DEF ProcessorOp, Semaphores, Stations
<1>1. /\ at[p] = from /\ at' = [at EXCEPT ![p] = to]
      /\ s # "mutex" => sems'[s] = sems[s] + op
      /\ \A t \in Semaphores : t # s => sems'[t] = sems[t]
      /\ UNCHANGED <<hawk, ringState, line, raw_log, msgs, outState>>
  BY <1>0, <1>o, SemEffect, Zenon
<1>a. hawk' = hawk /\ line' = line /\ raw_log' = raw_log
  BY <1>1
<1>2. Filled' = Filled /\ Claimed' = Claimed /\ at'[Collector] = at[Collector]
  BY <1>1, <1>a, ProcessorMoves, Zenon
<1>3. \A n \in Nat \ {0} : OnHand(n)' = OnHand(n)
  BY <1>a, <1>2, Zenon DEF OnHand
<1>4. \A n \in Nat \ {0} : InWork(n)' = InWork(n)
  <2>1. from \in Working <=> to \in Working
    BY DEF Working, ProcessorOp
  <2> QED
    BY <1>1, <1>a, <2>1, WorkSame, Zenon
<1>5. /\ Readers \in Nat /\ Returning \in Nat
      /\ Readers' = IF from \in {"P mutex", "read"} THEN (IF to \in {"P mutex", "read"} THEN Readers ELSE Readers - 1)
                    ELSE (IF to \in {"P mutex", "read"} THEN Readers + 1 ELSE Readers)
      /\ Returning' = IF from \in {"V mutex", "V space"} THEN (IF to \in {"V mutex", "V space"} THEN Returning ELSE Returning - 1)
                      ELSE (IF to \in {"V mutex", "V space"} THEN Returning + 1 ELSE Returning)
      /\ from \in {"V mutex", "V space"} => Returning >= 1
  <2> DEFINE A == {"P mutex", "read"}
             B == {"V mutex", "V space"}
  <2>1. /\ Readers = Count(A) /\ Readers' = Count(A)' /\ Returning = Count(B) /\ Returning' = Count(B)'
    BY Zenon DEF Readers, Returning
  <2> HIDE DEF A, B
  <2>2. /\ Count(A) \in Nat
        /\ Count(A)' = IF at[p] \in A THEN (IF to \in A THEN Count(A) ELSE Count(A) - 1)
                       ELSE (IF to \in A THEN Count(A) + 1 ELSE Count(A))
    BY <1>1, <1>a, CountMoves, Zenon
  <2>3. /\ Count(B) \in Nat /\ (at[p] \in B => Count(B) >= 1)
        /\ Count(B)' = IF at[p] \in B THEN (IF to \in B THEN Count(B) ELSE Count(B) - 1)
                       ELSE (IF to \in B THEN Count(B) + 1 ELSE Count(B))
    BY <1>1, <1>a, CountMoves, Zenon
  <2> QED
    BY <1>1, <2>1, <2>2, <2>3, Zenon DEF A, B
<1>6. "space" \in Semaphores /\ "data" \in Semaphores
  BY DEF Semaphores
<1>7. sems' \in [Semaphores -> Nat]
  <2>1. LogTypes'
    BY <1>0, <1>o, SemTypes, Zenon
  <2> QED
    BY <2>1, Zenon DEF LogTypes
<1>8. sems["data"] \in Nat /\ sems["space"] \in Nat /\ Filled \in Nat /\ Claimed \in Nat
  BY TermsNat
<1>9. sems'["data"] \in Nat /\ sems'["space"] \in Nat
  BY <1>6, <1>7
<1>m. Readers \in Nat /\ Returning \in Nat
  BY <1>5
<1>n. /\ sems'["data"] + Readers' = sems["data"] + Readers
      /\ sems'["space"] + Returning' = sems["space"] + Returning
      /\ Readers' \in Nat /\ Returning' \in Nat
  <2>1. CASE s = "data" /\ op = -1 /\ from = "P data" /\ to = "P mutex"
    <3>1. sems'["space"] = sems["space"] /\ sems'["data"] = sems["data"] + -1
      BY <1>1, <1>6, <2>1
    <3>2. Readers' = Readers + 1 /\ Returning' = Returning
      BY <1>5, <2>1
    <3> QED
      BY <3>1, <3>2, <1>8, <1>m
  <2>2. CASE s = "mutex" /\ op = -1 /\ from = "P mutex" /\ to = "read"
    <3>1. sems'["space"] = sems["space"] /\ sems'["data"] = sems["data"]
      BY <1>1, <1>6, <2>2
    <3>2. Readers' = Readers /\ Returning' = Returning
      BY <1>5, <2>2
    <3> QED
      BY <3>1, <3>2, <1>8, <1>m
  <2>3. CASE s = "mutex" /\ op = 1 /\ from = "V mutex" /\ to = "V space"
    <3>1. sems'["space"] = sems["space"] /\ sems'["data"] = sems["data"]
      BY <1>1, <1>6, <2>3
    <3>2. Readers' = Readers /\ Returning' = Returning
      BY <1>5, <2>3
    <3> QED
      BY <3>1, <3>2, <1>8, <1>m
  <2>4. CASE s = "space" /\ op = 1 /\ from = "V space" /\ to = "msgsnd"
    <3>1. sems'["space"] = sems["space"] + 1 /\ sems'["data"] = sems["data"]
      BY <1>1, <1>6, <2>4
    <3>2. Readers' = Readers /\ Returning' = Returning - 1 /\ Returning >= 1
      BY <1>5, <2>4
    <3> QED
      BY <3>1, <3>2, <1>8, <1>m
  <2> QED
    BY <2>1, <2>2, <2>3, <2>4, Zenon DEF ProcessorOp
<1>10. Unread' = Unread
  BY <1>2, <1>8, <1>9, <1>n, <1>m, UnreadSum, UnreadSumNext
<1>11. Returning' \in Nat /\ sems'["space"] + Returning' = sems["space"] + Returning
  BY <1>8, <1>9, <1>n, <1>m
<1>12. sems'["space"] + Claimed' + Returning' = sems["space"] + Claimed + Returning
  BY <1>2, <1>8, <1>9, <1>n, <1>m
<1> QED
  BY <1>1, <1>2, <1>3, <1>4, <1>8, <1>9, <1>10, <1>11, <1>12, SemBooks, Zenon

LEMMA NextRest ==
  ASSUME NEW a \in Nat, NEW m \in Nat, m >= 1
  PROVE  /\ a % m \in 0 .. m - 1 /\ a \div m \in Nat
         /\ a % m = m - 1 => (a + 1) % m = 0 /\ (a + 1) \div m = (a \div m) + 1
         /\ a % m # m - 1 => (a + 1) % m = (a % m) + 1 /\ (a + 1) \div m = a \div m
  OBVIOUS

LEMMA SmallRest == ASSUME NEW m \in Nat, NEW x \in 0 .. m - 1 PROVE x % m = x
  OBVIOUS

LEMMA OnePlusRest ==
  ASSUME NEW a \in Nat, NEW m \in Nat, m >= 1
  PROVE  ((a % m) + 1) % m = (a + 1) % m
<1> PICK x : x = a % m
  OBVIOUS
<1>1. /\ x \in 0 .. m - 1
      /\ x = m - 1 => (a + 1) % m = 0
      /\ x # m - 1 => (a + 1) % m = x + 1
  BY NextRest
<1>2. CASE x = m - 1
  <2>1. x + 1 = m /\ m % m = 0
    BY <1>2
  <2> QED
    BY <1>1, <1>2, <2>1
<1>3. CASE x # m - 1
  <2>1. x + 1 \in 0 .. m - 1
    BY <1>1, <1>3
  <2>2. (x + 1) % m = x + 1
    BY <2>1, SmallRest
  <2> QED
    BY <1>1, <1>3, <2>2
<1> QED
  BY <1>2, <1>3

(* Seen from the block after r, everything in the ring is one place nearer *)
LEMMA RingSteps ==
  ASSUME NEW r \in 0 .. MAX_LOGS - 1, NEW u \in Nat
  PROVE  /\ (((r + u) % MAX_LOGS) + 1) % MAX_LOGS = (r + (u + 1)) % MAX_LOGS
         /\ u <= MAX_LOGS /\ u > 0 => (((r + 1) % MAX_LOGS) + (u - 1)) % MAX_LOGS = (r + u) % MAX_LOGS
<1> PICK m \in Nat : m = MAX_LOGS /\ m > 0
  BY SizeFacts
<1>1. (((r + u) % m) + 1) % m = (r + (u + 1)) % m
  <2> PICK a \in Nat : a = r + u
    OBVIOUS
  <2>1. ((a % m) + 1) % m = (a + 1) % m
    <3>1. m >= 1
      OBVIOUS
    <3> QED
      BY <3>1, OnePlusRest, Zenon
  <2>2. r + (u + 1) = a + 1
    OBVIOUS
  <2> QED
    BY <2>1, <2>2
<1>2. ASSUME u <= m, u > 0 PROVE (((r + 1) % m) + (u - 1)) % m = (r + u) % m
  <2>1. CASE r + 1 # m
    <3>1. (r + 1) % m = r + 1
      BY <2>1
    <3>2. (r + 1) + (u - 1) = r + u
      OBVIOUS
    <3> QED
      BY <3>1, <3>2
  <2>2. CASE r + 1 = m
    <3>1. (r + 1) % m = 0
      BY <2>2
    <3>2. r + u = m + (u - 1) /\ u - 1 \in 0 .. m - 1
      BY <1>2, <2>2
    <3>3. (m + (u - 1)) % m = u - 1 /\ (u - 1) % m = u - 1
      BY <3>2
    <3>4. (0 + (u - 1)) % m = u - 1
      BY <3>3
    <3> QED
      BY <3>1, <3>2, <3>3, <3>4
  <2> QED
    BY <2>1, <2>2
<1> QED
  BY <1>1, <1>2

(* fopen and the end of the file. *)
LEMMA EdgeBooks == ASSUME LogTypes, Books, OpenLog \/ EndOfLog PROVE Books'
<1>1. PICK from \in {"fopen", "fgets"}, to \in {"fgets", "ended"} : Goes(Collector, from, to)
  BY Zenon DEF OpenLog, EndOfLog
<1>2. UNCHANGED <<hawk, ringState, sems, line, raw_log, msgs, outState>>
  BY Zenon DEF OpenLog, EndOfLog
<1>a. hawk' = hawk /\ line' = line /\ raw_log' = raw_log /\ sems' = sems
  BY <1>2
<1>3. at[Collector] = from /\ at' = [at EXCEPT ![Collector] = to]
  BY <1>1, Zenon DEF Goes
<1>4. Readers' = Readers /\ Returning' = Returning /\ at'[Collector] = to
  BY <1>3, <1>a, CollectorMoves, Zenon
<1>5. Filled = 0 /\ Filled' = 0 /\ Claimed = 0 /\ Claimed' = 0
  BY <1>1, <1>3, <1>4 DEF Filled, Claimed
<1>6. \A n \in Nat \ {0} : OnHand(n) = 0 /\ OnHand(n)' = 0
  BY <1>1, <1>3, <1>4 DEF OnHand
<1>7. \A n \in Nat \ {0} : InWork(n)' = InWork(n)
  BY <1>3, <1>a, WorkStays, Zenon
<1>8. Unread' = Unread
  BY <1>a, <1>4, <1>5, UnreadSum, UnreadSumNext, Zenon
<1>9. sems["space"] \in Nat /\ Claimed \in Nat /\ Returning \in Nat
  BY TermsNat
<1>10. \A n \in Nat \ {0} : OnHand(n)' = OnHand(n) /\ InWork(n)' = InWork(n)
  BY <1>6, <1>7, Zenon
<1>11. Claimed' = Claimed /\ Returning' = Returning /\ sems'["space"] = sems["space"]
  BY <1>a, <1>4, <1>5, Zenon
<1> QED
  BY <1>2, <1>8, <1>9, <1>10, <1>11, SemBooks, Zenon

(* A new line, on the way unless it is blank and skipped. *)
LEMMA ReadLineBooks == ASSUME LogTypes, Books, ReadLine PROVE Books'
<1>1. /\ line' = line + 1
      /\ UNCHANGED <<hawk, ringState, sems, raw_log, msgs, outState>>
      /\ at[Collector] = "fgets"
  BY Zenon DEF ReadLine, Goes
<1>2. PICK to : /\ to = IF hawk.collector.follows /\ Log[line'] = {} THEN "fgets" ELSE "P space"
                /\ at' = [at EXCEPT ![Collector] = to]
  BY Zenon DEF ReadLine, Goes
<1>a. hawk' = hawk /\ raw_log' = raw_log /\ sems' = sems /\ line \in Nat
  <2>1. line \in 0 .. Len(Log)
    BY Zenon DEF LogTypes
  <2> QED
    BY <1>1, <2>1, SizeFacts
<1>4. Readers' = Readers /\ Returning' = Returning /\ at'[Collector] = to
  BY <1>2, <1>a, CollectorMoves, Zenon
<1>t. to = "fgets" \/ to = "P space"
  BY <1>2
<1>5. Filled = 0 /\ Filled' = 0 /\ Claimed = 0 /\ Claimed' = 0
  BY <1>1, <1>4, <1>t DEF Filled, Claimed
<1>6. Unread' = Unread
  BY <1>a, <1>4, <1>5, UnreadSum, UnreadSumNext, Zenon
<1>7. \A n \in Collected : n \in 1 .. line
  BY DEF Collected
<1>8. \A n \in Nat \ {0} : n \in Collected' <=> n \in Collected \/ (n = line + 1 /\ to = "P space")
  <2>1. line' = line + 1 /\ 1 .. line + 1 = (1 .. line) \cup {line + 1}
    BY <1>1, <1>a
  <2>2. to = "P space" <=> ~(hawk.collector.follows /\ Log[line + 1] = {})
    BY <1>1, <1>2
  <2>3. Collected' = {n \in 1 .. line + 1 : ~(hawk.collector.follows /\ Log[n] = {})}
    BY <1>a, <2>1, Zenon DEF Collected
  <2> QED
    BY <2>1, <2>2, <2>3, Zenon DEF Collected
<1>9. ASSUME NEW n \in Nat \ {0} PROVE Places(n)' = IF n \in Collected' THEN 1 ELSE 0
  <2>1. InRing(n)' = InRing(n) /\ InQueue(n)' = InQueue(n) /\ AtOut(n)' = AtOut(n) /\ InFiles(n)' = InFiles(n)
    BY <1>1, <1>6, Zenon DEF InRing, InQueue, AtOut, InFiles, outState, ringState
  <2>2. InWork(n)' = InWork(n)
    BY <1>2, <1>a, WorkStays, Zenon
  <2>3. OnHand(n) = 0
    BY <1>1 DEF OnHand
  <2>4. OnHand(n)' = IF n = line + 1 /\ to = "P space" THEN 1 ELSE 0
    BY <1>1, <1>4, <1>t DEF OnHand
  <2>5. Places(n) = IF n \in Collected THEN 1 ELSE 0
    BY Zenon DEF Books
  <2>6. line + 1 \notin Collected
    <3>1. line + 1 \notin 1 .. line
      BY <1>a
    <3> QED
      BY <1>7, <3>1, Zenon
  <2>7. /\ InRing(n) \in Nat /\ InWork(n) \in Nat /\ InQueue(n) \in Nat /\ AtOut(n) \in Nat /\ InFiles(n) \in Nat
    BY TermsNat
  <2>8. /\ Places(n) = OnHand(n) + InRing(n) + InWork(n) + InQueue(n) + AtOut(n) + InFiles(n)
        /\ Places(n)' = OnHand(n)' + InRing(n) + InWork(n) + InQueue(n) + AtOut(n) + InFiles(n)
    BY <2>1, <2>2, PlacesSum, PlacesSumNext, Zenon
  <2>9. CASE n = line + 1 /\ to = "P space"
    <3>1. OnHand(n)' = 1 /\ Places(n) = 0 /\ n \in Collected'
      BY <1>8, <2>4, <2>5, <2>6, <2>9, Zenon
    <3>2. Places(n)' = 1
      BY <2>3, <2>7, <2>8, <3>1
    <3> QED
      BY <3>1, <3>2, Zenon
  <2>10. CASE ~(n = line + 1 /\ to = "P space")
    <3>1. OnHand(n)' = 0 /\ (n \in Collected' <=> n \in Collected)
      BY <1>8, <2>4, <2>10, Zenon
    <3>2. Places(n)' = Places(n)
      BY <2>3, <2>8, <3>1, Zenon
    <3> QED
      BY <2>5, <3>1, <3>2, Zenon
  <2> QED
    BY <2>9, <2>10
<1>10. write_pos' = (read_pos' + Unread') % MAX_LOGS
  BY <1>1, <1>6, Zenon DEF Books, ringState
<1>11. sems'["space"] + Unread' + Claimed' + Returning' = MAX_LOGS
  BY <1>a, <1>4, <1>5, <1>6, Zenon DEF Books
<1> QED
  BY <1>9, <1>10, <1>11, Zenon DEF Books

(* The collector's line comes into the ring. *)
LEMMA WriteBooks == ASSUME LogTypes, Books, WriteBlock PROVE Books'
<1>1. /\ blocks' = [blocks EXCEPT ![write_pos] = line] /\ write_pos' = (write_pos + 1) % MAX_LOGS
      /\ UNCHANGED <<hawk, read_pos, sems, line, raw_log, msgs, outState>>
      /\ at[Collector] = "write"
  BY Zenon DEF WriteBlock, Goes
<1>2. PICK to : to \in {"V mutex", "V data"} /\ at' = [at EXCEPT ![Collector] = to]
  BY DEF WriteBlock, Goes
<1>a. hawk' = hawk /\ raw_log' = raw_log /\ sems' = sems /\ line' = line /\ read_pos' = read_pos
  BY <1>1
<1>b. blocks \in [0 .. MAX_LOGS - 1 -> Nat] /\ read_pos \in 0 .. MAX_LOGS - 1 /\ line \in Nat
  <2>1. line \in 0 .. Len(Log) /\ blocks \in [0 .. MAX_LOGS - 1 -> Nat] /\ read_pos \in 0 .. MAX_LOGS - 1
    BY Zenon DEF LogTypes
  <2> QED
    BY <2>1, SizeFacts
<1>4. Readers' = Readers /\ Returning' = Returning /\ at'[Collector] = to
  BY <1>2, <1>a, CollectorMoves, Zenon
<1>5. Filled = 0 /\ Filled' = 1 /\ Claimed = 1 /\ Claimed' = 0
  BY <1>1, <1>2, <1>4 DEF Filled, Claimed
<1>r. Readers' = Readers /\ Returning' = Returning /\ sems' = sems
  BY <1>a, <1>4, Zenon
<1>6. sems["space"] \in Nat /\ sems["data"] \in Nat /\ Unread \in Nat /\ Returning \in Nat /\ Readers \in Nat
  BY TermsNat
<1>7. Unread' = Unread + 1
  <2>1. Unread = sems["data"] + Readers + 0 /\ Unread' = sems["data"] + Readers + 1
    BY <1>5, <1>r, UnreadSum, UnreadSumNext, Zenon
  <2> QED
    BY <1>6, <2>1
<1>8. sems["space"] + Unread + 1 + Returning = MAX_LOGS /\ write_pos = (read_pos + Unread) % MAX_LOGS
  BY <1>5, Zenon DEF Books
<1>9. Unread \in 0 .. MAX_LOGS - 1
  BY <1>6, <1>8, SizeFacts
<1>10. sems'["space"] + Unread' + Claimed' + Returning' = MAX_LOGS
  <2>1. sems["space"] + (Unread + 1) + 0 + Returning = MAX_LOGS
    BY <1>6, <1>8
  <2> QED
    BY <1>5, <1>7, <1>r, <2>1, Zenon
<1>11. write_pos' = (read_pos' + Unread') % MAX_LOGS
  <2>1. (((read_pos + Unread) % MAX_LOGS) + 1) % MAX_LOGS = (read_pos + (Unread + 1)) % MAX_LOGS
    BY <1>6, <1>b, RingSteps, Zenon
  <2> QED
    BY <1>1, <1>7, <1>8, <1>a, <2>1, Zenon
<1>12. ASSUME NEW n \in Nat \ {0} PROVE Places(n)' = Places(n)
  <2>1. InQueue(n)' = InQueue(n) /\ AtOut(n)' = AtOut(n) /\ InFiles(n)' = InFiles(n)
    BY <1>1, Zenon DEF InQueue, AtOut, InFiles, outState
  <2>2. InWork(n)' = InWork(n)
    BY <1>2, <1>a, WorkStays, Zenon
  <2>3. InRing(n)' = InRing(n) + Same(line, n)
    <3>1. /\ InRing(n)' = Cardinality(RingSet(blocks', read_pos, Unread + 1, n))
          /\ InRing(n) = Cardinality(RingSet(blocks, read_pos, Unread, n))
      BY <1>7, <1>a, Zenon DEF InRing
    <3>2. blocks' = [blocks EXCEPT ![(read_pos + Unread) % MAX_LOGS] = line]
      BY <1>1, <1>8, Zenon
    <3>3. (read_pos + Unread) % MAX_LOGS \in 0 .. MAX_LOGS - 1
      BY <1>8, Zenon DEF LogTypes
    <3>4. /\ blocks'[(read_pos + Unread) % MAX_LOGS] = line
          /\ \A i \in 0 .. MAX_LOGS - 1 : i # (read_pos + Unread) % MAX_LOGS => blocks'[i] = blocks[i]
      BY <1>b, <3>2, <3>3, Zenon
    <3> PICK u, c : u = Unread /\ c = blocks'
      BY Zenon
    <3>5. /\ u \in 0 .. MAX_LOGS - 1 /\ read_pos \in 0 .. MAX_LOGS - 1 /\ c[(read_pos + u) % MAX_LOGS] = line
          /\ \A i \in 0 .. MAX_LOGS - 1 : i # (read_pos + u) % MAX_LOGS => c[i] = blocks[i]
      BY <1>9, <1>b, <3>4, Zenon
    <3>6. Cardinality(RingSet(c, read_pos, u + 1, n)) = Cardinality(RingSet(blocks, read_pos, u, n)) + Same(line, n)
      BY <3>5, RingGrows
    <3> QED
      BY <3>1, <3>6, Zenon
  <2>4. OnHand(n) = Same(line, n) /\ OnHand(n)' = 0
    BY <1>1, <1>2, <1>4 DEF OnHand, Same
  <2>5. /\ InRing(n) \in Nat /\ InWork(n) \in Nat /\ InQueue(n) \in Nat /\ AtOut(n) \in Nat /\ InFiles(n) \in Nat
    BY TermsNat
  <2> PICK o : o = Same(line, n)
    OBVIOUS
  <2>6. o \in {0, 1}
    BY DEF Same
  <2>7. /\ Places(n) = o + InRing(n) + InWork(n) + InQueue(n) + AtOut(n) + InFiles(n)
        /\ Places(n)' = 0 + (InRing(n) + o) + InWork(n) + InQueue(n) + AtOut(n) + InFiles(n)
    BY <2>1, <2>2, <2>3, <2>4, PlacesSum, PlacesSumNext, Zenon
  <2> QED
    BY <2>5, <2>6, <2>7
<1> QED
  BY <1>a, <1>10, <1>11, <1>12, Balance, Zenon

(* A processor takes the oldest line of the ring. *)
LEMMA ReadBooks == ASSUME LogTypes, Books, NEW p \in Processors, ReadBlock(p) PROVE Books'
<1>1. /\ raw_log' = [raw_log EXCEPT ![p] = blocks[read_pos]] /\ read_pos' = (read_pos + 1) % MAX_LOGS
      /\ UNCHANGED <<hawk, blocks, write_pos, sems, line, msgs, outState>>
      /\ at[p] = "read" /\ at' = [at EXCEPT ![p] = "V mutex"]
  BY Zenon DEF ReadBlock, Goes
<1>a. hawk' = hawk /\ sems' = sems /\ line' = line /\ blocks' = blocks /\ write_pos' = write_pos
  BY <1>1
<1>b. raw_log \in [Processors -> Nat] /\ read_pos \in 0 .. MAX_LOGS - 1
  BY Zenon DEF LogTypes
<1>4. Filled' = Filled /\ Claimed' = Claimed /\ at'[Collector] = at[Collector]
  BY <1>1, <1>a, ProcessorMoves, Zenon
<1>5. Readers' = Readers - 1 /\ Readers >= 1 /\ Returning' = Returning + 1
  <2> DEFINE A == {"P mutex", "read"}
             B == {"V mutex", "V space"}
  <2>1. /\ Readers = Count(A) /\ Readers' = Count(A)' /\ Returning = Count(B) /\ Returning' = Count(B)'
    BY Zenon DEF Readers, Returning
  <2>2. "read" \in A /\ "V mutex" \notin A /\ "read" \notin B /\ "V mutex" \in B
    OBVIOUS
  <2> HIDE DEF A, B
  <2>3. /\ (at[p] \in A => Count(A) >= 1)
        /\ Count(A)' = IF at[p] \in A THEN (IF "V mutex" \in A THEN Count(A) ELSE Count(A) - 1)
                       ELSE (IF "V mutex" \in A THEN Count(A) + 1 ELSE Count(A))
    BY <1>1, <1>a, CountMoves, Zenon
  <2>4. Count(B)' = IF at[p] \in B THEN (IF "V mutex" \in B THEN Count(B) ELSE Count(B) - 1)
                    ELSE (IF "V mutex" \in B THEN Count(B) + 1 ELSE Count(B))
    BY <1>1, <1>a, CountMoves, Zenon
  <2> QED
    BY <1>1, <2>1, <2>2, <2>3, <2>4, Zenon
<1>6. /\ sems["space"] \in Nat /\ sems["data"] \in Nat /\ Unread \in Nat /\ Returning \in Nat /\ Readers \in Nat
      /\ Filled \in Nat /\ Claimed \in Nat
  BY TermsNat
<1>7. Unread' = Unread - 1 /\ Unread >= 1
  <2>1. Unread = sems["data"] + Readers + Filled /\ Unread' = sems["data"] + (Readers - 1) + Filled
    BY <1>a, <1>4, <1>5, UnreadSum, UnreadSumNext, Zenon
  <2>2. Readers >= 1
    BY <1>5
  <2> QED
    BY <1>6, <2>1, <2>2
<1>8. sems["space"] + Unread + Claimed + Returning = MAX_LOGS /\ write_pos = (read_pos + Unread) % MAX_LOGS
  BY Zenon DEF Books
<1>c. sems["space"] + Unread + Claimed + Returning = MAX_LOGS
  BY <1>8
<1>d. Unread >= 1
  BY <1>7
<1>9. Unread \in 1 .. MAX_LOGS /\ Unread <= MAX_LOGS /\ Unread > 0
  BY <1>6, <1>c, <1>d, SizeFacts
<1>10. sems'["space"] + Unread' + Claimed' + Returning' = MAX_LOGS
  <2>1. sems["space"] + (Unread - 1) + Claimed + (Returning + 1) = MAX_LOGS
    BY <1>6, <1>c
  <2> QED
    BY <1>4, <1>5, <1>7, <1>a, <2>1, Zenon
<1>11. write_pos' = (read_pos' + Unread') % MAX_LOGS
  <2>1. (((read_pos + 1) % MAX_LOGS) + (Unread - 1)) % MAX_LOGS = (read_pos + Unread) % MAX_LOGS
    BY <1>6, <1>9, <1>b, RingSteps, Zenon
  <2> QED
    BY <1>1, <1>7, <1>8, <1>a, <2>1, Zenon
<1>12. ASSUME NEW n \in Nat \ {0} PROVE Places(n)' = Places(n)
  <2>1. InQueue(n)' = InQueue(n) /\ AtOut(n)' = AtOut(n) /\ InFiles(n)' = InFiles(n)
    BY <1>1, Zenon DEF InQueue, AtOut, InFiles, outState
  <2>2. OnHand(n)' = OnHand(n)
    BY <1>a, <1>4, Zenon DEF OnHand
  <2>3. InRing(n) = InRing(n)' + Same(blocks[read_pos], n)
    <3>1. InRing(n)' = Cardinality(RingSet(blocks, (read_pos + 1) % MAX_LOGS, Unread - 1, n))
      BY <1>1, <1>7, <1>a, Zenon DEF InRing
    <3>2. InRing(n) = Cardinality(RingSet(blocks, read_pos, Unread, n))
      BY Zenon DEF InRing
    <3>3. ASSUME NEW u \in 1 .. MAX_LOGS
          PROVE  Cardinality(RingSet(blocks, read_pos, u, n))
                   = Cardinality(RingSet(blocks, (read_pos + 1) % MAX_LOGS, u - 1, n)) + Same(blocks[read_pos], n)
      BY <1>b, RingShrinks
    <3> QED
      BY <1>9, <3>1, <3>2, <3>3, Zenon
  <2>4. InWork(n)' = InWork(n) + Same(blocks[read_pos], n)
    <3>1. "read" \notin Working /\ "V mutex" \in Working
      BY DEF Working
    <3> QED
      BY <1>1, <1>a, <3>1, WorkTaken, Zenon
  <2>5. /\ OnHand(n) \in Nat /\ InWork(n) \in Nat /\ InQueue(n) \in Nat /\ AtOut(n) \in Nat /\ InFiles(n) \in Nat
    BY TermsNat
  <2>6. InRing(n)' \in Nat
    <3>1. Unread' \in Int
      BY <1>6, <1>7
    <3> QED
      BY <3>1, RingFinite, Zenon DEF InRing
  <2> PICK o : o = Same(blocks[read_pos], n)
    OBVIOUS
  <2>7. o \in {0, 1}
    BY DEF Same
  <2>8. /\ Places(n) = OnHand(n) + (InRing(n)' + o) + InWork(n) + InQueue(n) + AtOut(n) + InFiles(n)
        /\ Places(n)' = OnHand(n) + InRing(n)' + (InWork(n) + o) + InQueue(n) + AtOut(n) + InFiles(n)
    BY <2>1, <2>2, <2>3, <2>4, PlacesSum, PlacesSumNext, Zenon
  <2> QED
    BY <2>5, <2>6, <2>7, <2>8
<1> QED
  BY <1>a, <1>10, <1>11, <1>12, Balance, Zenon

(* A processor's line goes into the message queue. *)
LEMMA SendBooks == ASSUME LogTypes, Books, NEW p \in Processors, SendMsg(p) PROVE Books'
<1>1. /\ msgs' = Append(msgs, [mtype |-> Classified(raw_log[p]), mtext |-> raw_log[p]])
      /\ UNCHANGED <<hawk, ringState, sems, line, raw_log, outState>>
      /\ at[p] = "msgsnd" /\ at' = [at EXCEPT ![p] = "P data"]
  BY Zenon DEF SendMsg, Goes
<1>a. hawk' = hawk /\ sems' = sems /\ line' = line /\ raw_log' = raw_log
  BY <1>1
<1>b. raw_log \in [Processors -> Nat] /\ msgs \in Seq(Message)
  BY Zenon DEF LogTypes
<1>4. Filled' = Filled /\ Claimed' = Claimed /\ at'[Collector] = at[Collector]
  BY <1>1, <1>a, ProcessorMoves, Zenon
<1>5. Readers' = Readers /\ Returning' = Returning
  <2> DEFINE A == {"P mutex", "read"}
             B == {"V mutex", "V space"}
  <2>1. /\ Readers = Count(A) /\ Readers' = Count(A)' /\ Returning = Count(B) /\ Returning' = Count(B)'
    BY Zenon DEF Readers, Returning
  <2>2. "msgsnd" \notin A /\ "P data" \notin A /\ "msgsnd" \notin B /\ "P data" \notin B
    OBVIOUS
  <2> HIDE DEF A, B
  <2>3. Count(A)' = IF at[p] \in A THEN (IF "P data" \in A THEN Count(A) ELSE Count(A) - 1)
                    ELSE (IF "P data" \in A THEN Count(A) + 1 ELSE Count(A))
    BY <1>1, <1>a, CountMoves, Zenon
  <2>4. Count(B)' = IF at[p] \in B THEN (IF "P data" \in B THEN Count(B) ELSE Count(B) - 1)
                    ELSE (IF "P data" \in B THEN Count(B) + 1 ELSE Count(B))
    BY <1>1, <1>a, CountMoves, Zenon
  <2> QED
    BY <1>1, <2>1, <2>2, <2>3, <2>4, Zenon
<1>6. Unread' = Unread
  BY <1>a, <1>4, <1>5, UnreadSum, UnreadSumNext, Zenon
<1>7. sems'["space"] + Unread' + Claimed' + Returning' = MAX_LOGS
  BY <1>a, <1>4, <1>5, <1>6, Zenon DEF Books
<1>8. write_pos' = (read_pos' + Unread') % MAX_LOGS
  BY <1>1, <1>6, Zenon DEF Books, ringState
<1>9. ASSUME NEW n \in Nat \ {0} PROVE Places(n)' = Places(n)
  <2>1. InRing(n)' = InRing(n) /\ AtOut(n)' = AtOut(n) /\ InFiles(n)' = InFiles(n)
    BY <1>1, <1>6, Zenon DEF InRing, AtOut, InFiles, outState, ringState
  <2>2. OnHand(n)' = OnHand(n)
    BY <1>a, <1>4, Zenon DEF OnHand
  <2> PICK v : v = raw_log[p]
    OBVIOUS
  <2>v. v \in Nat
    BY <1>b
  <2>3. InQueue(n)' = InQueue(n) + Same(v, n)
    <3> PICK m : m = [mtype |-> Classified(raw_log[p]), mtext |-> raw_log[p]]
      OBVIOUS
    <3>1. m \in Message /\ m.mtext = v
      BY <2>v, MessageFields, ClassifiedIsKind, Zenon
    <3>2. InQueue(n)' = Cardinality(QueueSet(Append(msgs, m), n))
      BY <1>1, Zenon DEF InQueue
    <3> QED
      BY <1>b, <3>1, <3>2, QueueGrows, Zenon DEF InQueue
  <2>4. InWork(n) = InWork(n)' + Same(v, n) /\ InWork(n)' \in Nat
    <3>1. "msgsnd" \in Working /\ "P data" \notin Working
      BY DEF Working
    <3> QED
      BY <1>1, <1>a, <3>1, WorkHanded, Zenon
  <2>5. /\ OnHand(n) \in Nat /\ InRing(n) \in Nat /\ InWork(n) \in Nat /\ InQueue(n) \in Nat /\ AtOut(n) \in Nat
        /\ InFiles(n) \in Nat
    BY TermsNat
  <2> PICK o : o = Same(v, n)
    OBVIOUS
  <2>6. o \in {0, 1}
    BY DEF Same
  <2>7. /\ Places(n) = OnHand(n) + InRing(n) + InWork(n) + InQueue(n) + AtOut(n) + InFiles(n)
        /\ Places(n)' = OnHand(n) + InRing(n) + InWork(n)' + (InQueue(n) + o) + AtOut(n) + InFiles(n)
        /\ InWork(n) = InWork(n)' + o
    BY <2>1, <2>2, <2>3, <2>4, PlacesSum, PlacesSumNext, Zenon
  <2>10. InWork(n)' \in Nat
    BY <2>4
  <2> QED
    BY <2>5, <2>6, <2>7, <2>10
<1> QED
  BY <1>a, <1>7, <1>8, <1>9, Balance, Zenon

(* With SEM_UNDO, what exit would undo: the collector's P of space and V   *)
(* of data are as many as the lines it has passed through, and a processor *)
(* has no more to give back than it has taken.                             *)
Lines == Cardinality(Collected)
Asks == IF at[Collector] = "P space" THEN 1 ELSE 0
Carries == IF at[Collector] \in {"P space", "P mutex", "write", "V mutex", "V data"} THEN 1 ELSE 0
Owing == {"P mutex", "read", "V mutex", "V space"}
Owes(p) == IF at[p] \in Owing THEN 1 ELSE 0

Fits(space, data, asks, carries, lines) ==
  /\ space \in Nat /\ space + asks <= lines
  /\ -data \in Nat /\ carries - data <= lines
Borrows(space, data, owes, offered, given) ==
  /\ data \in Nat /\ data + offered <= -given
  /\ -space \in Nat /\ owes - space <= data
Ranges ==
  hawk.sem.SEM_UNDO =>
    /\ Fits(semadj[Collector]["space"], semadj[Collector]["data"], Asks, Carries, Lines)
    /\ \A p \in Processors :
         Borrows(semadj[p]["space"], semadj[p]["data"], Owes(p), sems["data"], semadj[Collector]["data"])

(* The arithmetic of the six kinds of steps. *)
LEMMA FitsSteps ==
  ASSUME NEW space \in Int, NEW data \in Int, NEW asks \in {0, 1}, NEW carries \in {0, 1}, NEW lines \in Nat,
         Fits(space, data, asks, carries, lines)
  PROVE  /\ \A a, c \in {0, 1} : a <= asks /\ c <= carries => Fits(space, data, a, c, lines)
         /\ asks = 0 /\ carries = 0 => Fits(space, data, 1, 1, lines + 1)
         /\ asks = 1 => Fits(space - (-1), data, 0, carries, lines)
         /\ carries = 1 => Fits(space, data - 1, asks, 0, lines)
  BY DEF Fits

LEMMA BorrowsSteps ==
  ASSUME NEW space \in Int, NEW data \in Int, NEW owes \in {0, 1}, NEW offered \in Int, NEW given \in Int,
         Borrows(space, data, owes, offered, given)
  PROVE  /\ \A o \in {0, 1} : o <= owes => Borrows(space, data, o, offered, given)
         /\ Borrows(space, data, owes, offered + 1, given - 1)
         /\ Borrows(space, data, owes, offered + (-1), given)
         /\ owes = 0 => Borrows(space, data - (-1), 1, offered + (-1), given)
         /\ owes = 1 => Borrows(space - 1, data, 0, offered, given)
  BY DEF Borrows

LEMMA LinesNat == ASSUME LogTypes PROVE IsFiniteSet(Collected) /\ Lines \in Nat
<1>1. line \in Nat
  <2>1. line \in 0 .. Len(Log)
    BY Zenon DEF LogTypes
  <2> QED
    BY <2>1, SizeFacts
<1>2. IsFiniteSet(1 .. line)
  BY <1>1, FS_Interval
<1>3. Collected \in SUBSET (1 .. line)
  BY Zenon DEF Collected
<1> QED
  BY <1>2, <1>3, FS_Subset, FS_CardinalityType, Zenon DEF Lines

LEMMA UndoTypes ==
  ASSUME LogTypes
  PROVE  /\ \A r \in Procs : semadj[r]["space"] \in Int /\ semadj[r]["data"] \in Int
         /\ sems["data"] \in Int
         /\ Asks \in {0, 1} /\ Carries \in {0, 1} /\ \A p \in Processors : Owes(p) \in {0, 1}
         /\ Collector \in Procs /\ Processors \subseteq Procs /\ Collector \notin Processors
<1>1. /\ semadj \in [Procs -> [Semaphores -> Int]] /\ sems \in [Semaphores -> Nat]
      /\ "space" \in Semaphores /\ "data" \in Semaphores
  BY Zenon DEF LogTypes, Semaphores
<1>2. Asks \in {0, 1} /\ Carries \in {0, 1} /\ \A p \in Processors : Owes(p) \in {0, 1}
  BY DEF Asks, Carries, Owes
<1>3. Collector \in Procs /\ Processors \subseteq Procs /\ Collector \notin Processors
  BY ProcsFacts, Zenon DEF LogTypes
<1>4. \A r \in Procs : semadj[r]["space"] \in Int /\ semadj[r]["data"] \in Int
  BY <1>1
<1>5. sems["data"] \in Int
  BY <1>1
<1> QED
  BY <1>2, <1>3, <1>4, <1>5

(* While the kernel's range covers the lines, no semop is refused.         *)
LEMMA InTheRange ==
  ASSUME NEW space \in Nat, NEW unread \in Nat, NEW claimed \in Nat, NEW returning \in Nat,
         NEW data \in Nat, NEW readers \in Nat, NEW filled \in Nat, NEW size \in Nat, NEW most \in Nat,
         space + unread + claimed + returning = size, unread = data + readers + filled, size <= most
  PROVE  space + returning <= most /\ data <= most
  OBVIOUS

LEMMA CollectorGranted ==
  ASSUME LogTypes, Books, Ranges, ~Overdrawn, NEW from, NEW s, NEW op, NEW to,
         SemStep(Collector, from, s, op, to), CollectorOp(from, s, op, to), s # "mutex"
  PROVE  ~Refused(Collector, s, op)
<1>0. /\ sems["space"] \in Nat /\ sems["data"] \in Nat /\ Unread \in Nat /\ Claimed \in Nat /\ Returning \in Nat
      /\ Readers \in Nat /\ Lines \in Nat /\ at[Collector] = from
  BY TermsNat, LinesNat, Zenon DEF SemStep, Goes
<1>1. sems["space"] + Unread + Claimed + Returning = MAX_LOGS /\ Unread = sems["data"] + Readers + Filled
  BY UnreadSum, Zenon DEF Books
<1>2. hawk.sem.SEM_UNDO => Lines <= SEMVMX
  BY <1>0, SizeFacts DEF Overdrawn, Lines
<1>t. semadj[Collector]["space"] \in Int /\ semadj[Collector]["data"] \in Int
  BY UndoTypes, Zenon
<1>3. CASE s = "space" /\ op = -1 /\ from = "P space"
  <2>1. ~(sems["space"] + (-1) > SEMVMX)
    <3>1. sems["space"] <= MAX_LOGS
      BY <1>0, <1>1, SizeFacts
    <3> QED
      BY <1>0, <3>1, SizeFacts
  <2>2. ASSUME hawk.sem.SEM_UNDO
        PROVE  ~(semadj[Collector]["space"] - (-1) < -SEMVMX - 1) /\ ~(semadj[Collector]["space"] - (-1) > SEMVMX)
    <3>1. semadj[Collector]["space"] \in Nat /\ semadj[Collector]["space"] + 1 <= Lines
      BY <1>0, <1>3, <2>2 DEF Ranges, Fits, Asks
    <3> QED
      BY <1>0, <1>2, <2>2, <3>1, SizeFacts
  <2> QED
    BY <1>3, <2>1, <2>2, Zenon DEF Refused
<1>4. CASE s = "data" /\ op = 1 /\ from = "V data"
  <2>1. ~(sems["data"] + 1 > SEMVMX)
    <3>1. Filled = 1
      BY <1>0, <1>4 DEF Filled
    <3>2. Unread = sems["data"] + Readers + 1
      BY <1>1, <3>1
    <3>3. sems["data"] + 1 <= Unread
      BY <1>0, <3>2
    <3>4. Unread <= MAX_LOGS
      BY <1>0, <1>1, SizeFacts
    <3> QED
      BY <1>0, <3>3, <3>4, SizeFacts
  <2>2. ASSUME hawk.sem.SEM_UNDO
        PROVE  ~(semadj[Collector]["data"] - 1 < -SEMVMX - 1) /\ ~(semadj[Collector]["data"] - 1 > SEMVMX)
    <3>1. -semadj[Collector]["data"] \in Nat /\ 1 - semadj[Collector]["data"] <= Lines
      BY <1>0, <1>4, <2>2 DEF Ranges, Fits, Carries
    <3> QED
      BY <1>0, <1>2, <1>t, <2>2, <3>1, SizeFacts
  <2> QED
    BY <1>4, <2>1, <2>2, Zenon DEF Refused
<1> QED
  BY <1>3, <1>4, Zenon DEF CollectorOp

LEMMA ProcessorGranted ==
  ASSUME LogTypes, Books, Ranges, ~Overdrawn, NEW p \in Processors, NEW from, NEW s, NEW op, NEW to,
         SemStep(p, from, s, op, to), ProcessorOp(from, s, op, to), s # "mutex"
  PROVE  ~Refused(p, s, op)
<1>0. /\ sems["space"] \in Nat /\ sems["data"] \in Nat /\ Unread \in Nat /\ Claimed \in Nat /\ Returning \in Nat
      /\ Readers \in Nat /\ Filled \in Nat /\ Lines \in Nat
  BY TermsNat, LinesNat, Zenon
<1>s. at[p] = from /\ sems[s] + op >= 0
  BY Zenon DEF SemStep, Goes, Semop
<1>1. sems["space"] + Unread + Claimed + Returning = MAX_LOGS /\ Unread = sems["data"] + Readers + Filled
  BY UnreadSum, Zenon DEF Books
<1>m. sems["space"] + Returning <= SEMVMX /\ sems["data"] <= SEMVMX
  <2>1. MAX_LOGS \in Nat /\ SEMVMX \in Nat /\ MAX_LOGS <= SEMVMX
    BY SizeFacts
  <2> QED
    BY <1>0, <1>1, <2>1, InTheRange
<1>2. hawk.sem.SEM_UNDO => Lines <= SEMVMX
  BY <1>0, SizeFacts DEF Overdrawn, Lines
<1>t. /\ semadj[p]["data"] \in Int /\ semadj[p]["space"] \in Int /\ semadj[Collector]["data"] \in Int
      /\ Carries \in {0, 1}
  BY UndoTypes
<1>b. ASSUME hawk.sem.SEM_UNDO
      PROVE  /\ semadj[p]["data"] \in Nat /\ semadj[p]["data"] + sems["data"] <= Lines
             /\ Owes(p) - semadj[p]["space"] <= Lines
             /\ -semadj[p]["space"] \in Nat
  <2>1. Borrows(semadj[p]["space"], semadj[p]["data"], Owes(p), sems["data"], semadj[Collector]["data"])
    BY <1>b, Zenon DEF Ranges
  <2>2. Carries - semadj[Collector]["data"] <= Lines
    BY <1>b, Zenon DEF Ranges, Fits
  <2>3. Owes(p) \in {0, 1}
    BY UndoTypes
  <2> QED
    BY <1>0, <1>t, <2>1, <2>2, <2>3 DEF Borrows
<1>3. CASE s = "data" /\ op = -1 /\ from = "P data"
  <2>1. ~(sems["data"] + (-1) > SEMVMX)
    BY <1>0, <1>m, SizeFacts
  <2>2. ASSUME hawk.sem.SEM_UNDO
        PROVE  ~(semadj[p]["data"] - (-1) < -SEMVMX - 1) /\ ~(semadj[p]["data"] - (-1) > SEMVMX)
    <3>1. sems["data"] >= 1
      <4>1. sems["data"] + (-1) >= 0
        BY <1>s, <1>3, Zenon
      <4> QED
        BY <1>0, <4>1
    <3> QED
      BY <1>0, <1>2, <1>b, <2>2, <3>1, SizeFacts
  <2> QED
    BY <1>3, <2>1, <2>2, Zenon DEF Refused
<1>4. CASE s = "space" /\ op = 1 /\ from = "V space"
  <2>1. ~(sems["space"] + 1 > SEMVMX)
    <3>1. Returning >= 1
      <4> DEFINE S == {q \in Processors : at[q] \in {"V mutex", "V space"}}
      <4>1. Returning = Cardinality(S) /\ IsFiniteSet(S) /\ p \in S
        BY <1>s, <1>4, CountNat, Zenon DEF Returning, Count, InStep
      <4> HIDE DEF S
      <4>2. IsFiniteSet(S \ {p}) /\ Cardinality(S \ {p}) = Cardinality(S) - 1 /\ Cardinality(S) \in Nat
        BY <4>1, FS_RemoveElement, FS_CardinalityType
      <4>3. Cardinality(S \ {p}) \in Nat
        BY <4>2, FS_CardinalityType
      <4> QED
        BY <4>1, <4>2, <4>3
    <3> QED
      BY <1>0, <1>m, <3>1, SizeFacts
  <2>2. ASSUME hawk.sem.SEM_UNDO
        PROVE  ~(semadj[p]["space"] - 1 < -SEMVMX - 1) /\ ~(semadj[p]["space"] - 1 > SEMVMX)
    <3>1. Owes(p) = 1
      BY <1>s, <1>4 DEF Owing, Owes
    <3> QED
      BY <1>0, <1>t, <1>2, <1>b, <2>2, <3>1, SizeFacts
  <2> QED
    BY <1>4, <2>1, <2>2, Zenon DEF Refused
<1> QED
  BY <1>3, <1>4, Zenon DEF ProcessorOp

LEMMA CollectorBooks == ASSUME LogTypes, Books, Ranges, ~Overdrawn, collector PROVE Books'
<1>1. CASE OpenLog \/ EndOfLog
  BY <1>1, EdgeBooks, Zenon
<1>2. CASE ReadLine
  BY <1>2, ReadLineBooks, Zenon
<1>3. CASE WriteBlock
  BY <1>3, WriteBooks, Zenon
<1>4. CASE ClaimSpace
  <2>1. PICK to : to \in {"P mutex", "write"} /\ SemStep(Collector, "P space", "space", -1, to)
    BY <1>4 DEF ClaimSpace
  <2>2. CollectorOp("P space", "space", -1, to)
    BY <2>1 DEF CollectorOp
  <2> QED
    BY <2>1, <2>2, CollectorSem, CollectorGranted, Zenon
<1>5. CASE SemStep(Collector, "P mutex", "mutex", -1, "write")
  <2>1. CollectorOp("P mutex", "mutex", -1, "write")
    BY DEF CollectorOp
  <2> QED
    BY <1>5, <2>1, CollectorSem, CollectorGranted, Zenon
<1>6. CASE SemStep(Collector, "V mutex", "mutex", 1, "V data")
  <2>1. CollectorOp("V mutex", "mutex", 1, "V data")
    BY DEF CollectorOp
  <2> QED
    BY <1>6, <2>1, CollectorSem, CollectorGranted, Zenon
<1>7. CASE SemStep(Collector, "V data", "data", 1, "fgets")
  <2>1. CollectorOp("V data", "data", 1, "fgets")
    BY DEF CollectorOp
  <2> QED
    BY <1>7, <2>1, CollectorSem, CollectorGranted, Zenon
<1> QED
  BY <1>1, <1>2, <1>3, <1>4, <1>5, <1>6, <1>7, Zenon DEF collector

LEMMA ProcessorBooks ==
  ASSUME LogTypes, Books, Ranges, ~Overdrawn, NEW p \in Processors, processor(p) PROVE Books'
<1>1. CASE SemStep(p, "P data", "data", -1, "P mutex")
  <2>1. ProcessorOp("P data", "data", -1, "P mutex")
    BY DEF ProcessorOp
  <2> QED
    BY <1>1, <2>1, ProcessorSem, ProcessorGranted, Zenon
<1>2. CASE SemStep(p, "P mutex", "mutex", -1, "read")
  <2>1. ProcessorOp("P mutex", "mutex", -1, "read")
    BY DEF ProcessorOp
  <2> QED
    BY <1>2, <2>1, ProcessorSem, ProcessorGranted, Zenon
<1>3. CASE ReadBlock(p)
  BY <1>3, ReadBooks, Zenon
<1>4. CASE SemStep(p, "V mutex", "mutex", 1, "V space")
  <2>1. ProcessorOp("V mutex", "mutex", 1, "V space")
    BY DEF ProcessorOp
  <2> QED
    BY <1>4, <2>1, ProcessorSem, ProcessorGranted, Zenon
<1>5. CASE SemStep(p, "V space", "space", 1, "msgsnd")
  <2>1. ProcessorOp("V space", "space", 1, "msgsnd")
    BY DEF ProcessorOp
  <2> QED
    BY <1>5, <2>1, ProcessorSem, ProcessorGranted, Zenon
<1>6. CASE SendMsg(p)
  BY <1>6, SendBooks, Zenon
<1> QED
  BY <1>1, <1>2, <1>3, <1>4, <1>5, <1>6, Zenon DEF processor

LEMMA LinesStay == ASSUME hawk' = hawk, line' = line PROVE Collected' = Collected /\ Lines' = Lines
  BY Zenon DEF Collected, Lines

(* A step that lets no line in and changes nothing of the semaphores       *)
(* space and data.                                                         *)
LEMMA RangesQuiet ==
  ASSUME LogTypes, LogTypes', Ranges, hawk' = hawk, Lines' = Lines, sems'["data"] = sems["data"],
         hawk.sem.SEM_UNDO =>
           \A r \in Procs : semadj'[r]["space"] = semadj[r]["space"] /\ semadj'[r]["data"] = semadj[r]["data"],
         Asks' <= Asks, Carries' <= Carries, \A p \in Processors : Owes(p)' <= Owes(p)
  PROVE  Ranges'
<1> SUFFICES ASSUME hawk.sem.SEM_UNDO
             PROVE  /\ Fits(semadj'[Collector]["space"], semadj'[Collector]["data"], Asks', Carries', Lines')
                    /\ \A p \in Processors :
                         Borrows(semadj'[p]["space"], semadj'[p]["data"], Owes(p)', sems'["data"],
                                 semadj'[Collector]["data"])
  BY Zenon DEF Ranges, Processors, Collector
<1>1. Fits(semadj'[Collector]["space"], semadj'[Collector]["data"], Asks', Carries', Lines')
  <2>1. Fits(semadj[Collector]["space"], semadj[Collector]["data"], Asks, Carries, Lines)
    BY Zenon DEF Ranges
  <2>2. Asks' \in {0, 1} /\ Carries' \in {0, 1}
    BY DEF Asks, Carries
  <2>t. /\ semadj[Collector]["space"] \in Int /\ semadj[Collector]["data"] \in Int
        /\ Asks \in {0, 1} /\ Carries \in {0, 1} /\ Lines \in Nat
    BY UndoTypes, LinesNat, Zenon
  <2>s. \A a, c \in {0, 1} : a <= Asks /\ c <= Carries =>
          Fits(semadj[Collector]["space"], semadj[Collector]["data"], a, c, Lines)
    BY <2>1, <2>t, FitsSteps
  <2>3. Fits(semadj[Collector]["space"], semadj[Collector]["data"], Asks', Carries', Lines)
    BY <2>2, <2>s, Zenon
  <2> QED
    BY <2>3, UndoTypes, Zenon
<1>2. ASSUME NEW p \in Processors
      PROVE  Borrows(semadj'[p]["space"], semadj'[p]["data"], Owes(p)', sems'["data"], semadj'[Collector]["data"])
  <2>1. Borrows(semadj[p]["space"], semadj[p]["data"], Owes(p), sems["data"], semadj[Collector]["data"])
    BY Zenon DEF Ranges
  <2>2. Owes(p)' \in {0, 1} /\ Owes(p)' <= Owes(p)
    BY DEF Owes
  <2>d. sems["data"] \in Int
    BY UndoTypes, Zenon
  <2>t. /\ semadj[p]["space"] \in Int /\ semadj[p]["data"] \in Int /\ semadj[Collector]["data"] \in Int
        /\ Owes(p) \in {0, 1}
    BY UndoTypes, Zenon
  <2>s. \A o \in {0, 1} : o <= Owes(p) =>
          Borrows(semadj[p]["space"], semadj[p]["data"], o, sems["data"], semadj[Collector]["data"])
    BY <2>1, <2>d, <2>t, BorrowsSteps, ZenonT(60)
  <2>4. Borrows(semadj[p]["space"], semadj[p]["data"], Owes(p)', sems["data"], semadj[Collector]["data"])
    BY <2>2, <2>s, Zenon
  <2> QED
    BY <2>4, UndoTypes, Zenon
<1> QED
  BY <1>1, <1>2

(* Reading a line that is not blank. *)
LEMMA RangesRead ==
  ASSUME LogTypes, LogTypes', Ranges, hawk' = hawk, Lines' = Lines + 1, sems' = sems, semadj' = semadj,
         Asks = 0, Asks' = 1, Carries = 0, Carries' = 1, \A p \in Processors : Owes(p)' = Owes(p)
  PROVE  Ranges'
<1> SUFFICES ASSUME hawk.sem.SEM_UNDO
             PROVE  /\ Fits(semadj[Collector]["space"], semadj[Collector]["data"], 1, 1, Lines + 1)
                    /\ \A p \in Processors :
                         Borrows(semadj[p]["space"], semadj[p]["data"], Owes(p), sems["data"],
                                 semadj[Collector]["data"])
  BY Zenon DEF Ranges, Processors, Collector
<1>1. Fits(semadj[Collector]["space"], semadj[Collector]["data"], Asks, Carries, Lines)
  BY Zenon DEF Ranges
<1>2. /\ semadj[Collector]["space"] \in Int /\ semadj[Collector]["data"] \in Int
      /\ Asks \in {0, 1} /\ Carries \in {0, 1} /\ Lines \in Nat
  BY UndoTypes, LinesNat, Zenon
<1>3. Fits(semadj[Collector]["space"], semadj[Collector]["data"], 1, 1, Lines + 1)
  BY <1>1, <1>2, FitsSteps
<1> QED
  BY <1>3, Zenon DEF Ranges

(* A semaphore operation that is not refused. *)
LEMMA RangesGranted ==
  ASSUME LogTypes, LogTypes', Ranges, NEW q \in Procs, NEW from, NEW s \in Semaphores, NEW op \in Int, NEW to,
         SemStep(q, from, s, op, to), s # "mutex" => ~Refused(q, s, op)
  PROVE  /\ hawk.sem.SEM_UNDO => UndoneBy(q, s, op)
         /\ sems'["data"] = IF s = "data" THEN sems["data"] + op ELSE sems["data"]
         /\ hawk' = hawk /\ Lines' = Lines
         /\ at[q] = from /\ \A r \in Procs : at'[r] = IF r = q THEN to ELSE at[r]
<1>1. /\ at[q] = from /\ at' = [at EXCEPT ![q] = to]
      /\ s # "mutex" => sems'[s] = sems[s] + op
      /\ \A t \in Semaphores : t # s => sems'[t] = sems[t]
      /\ UNCHANGED <<hawk, ringState, line, raw_log, msgs, outState>>
  BY SemEffect, Zenon
<1>2. hawk.sem.SEM_UNDO => UndoneBy(q, s, op)
  BY UndoEffect, Zenon
<1>3. at \in [Procs -> Stations]
  BY Zenon DEF LogTypes
<1>4. \A r \in Procs : at'[r] = IF r = q THEN to ELSE at[r]
  BY <1>1, <1>3
<1>5. "data" \in Semaphores /\ "data" # "mutex"
  BY DEF Semaphores
<1>6. sems'["data"] = IF s = "data" THEN sems["data"] + op ELSE sems["data"]
  BY <1>1, <1>5, Zenon
<1>7. hawk' = hawk /\ line' = line
  BY <1>1, Zenon
<1>8. Lines' = Lines
  BY <1>7, LinesStay, Zenon
<1> QED
  BY <1>1, <1>2, <1>4, <1>6, <1>7, <1>8, Zenon

LEMMA Units == -1 \in Int /\ 1 \in Int /\ \A x : x \in {0, 1} => x <= x /\ 0 <= x
  OBVIOUS

LEMMA RangesMutex ==
  ASSUME LogTypes, LogTypes', Ranges, NEW q \in Procs, NEW from, NEW op \in Int, NEW to,
         SemStep(q, from, "mutex", op, to),
         \/ q = Collector /\ from = "P mutex" /\ to = "write"
         \/ q = Collector /\ from = "V mutex" /\ to = "V data"
         \/ q # Collector /\ from = "P mutex" /\ to = "read"
         \/ q # Collector /\ from = "V mutex" /\ to = "V space"
  PROVE  Ranges'
<1>0. "mutex" \in Semaphores /\ "mutex" # "space" /\ "mutex" # "data"
  BY DEF Semaphores
<1>u. /\ hawk.sem.SEM_UNDO => UndoneBy(q, "mutex", op)
      /\ sems'["data"] = IF "mutex" = "data" THEN sems["data"] + op ELSE sems["data"]
      /\ hawk' = hawk /\ Lines' = Lines
      /\ at[q] = from /\ \A r \in Procs : at'[r] = IF r = q THEN to ELSE at[r]
  BY <1>0, RangesGranted, Zenon
<1>1. /\ hawk.sem.SEM_UNDO =>
           \A r \in Procs : semadj'[r]["space"] = semadj[r]["space"] /\ semadj'[r]["data"] = semadj[r]["data"]
      /\ sems'["data"] = sems["data"] /\ hawk' = hawk /\ Lines' = Lines
      /\ at[q] = from /\ \A r \in Procs : at'[r] = IF r = q THEN to ELSE at[r]
  BY <1>0, <1>u, Zenon DEF UndoneBy
<1>2. Collector \in Procs /\ Processors \subseteq Procs /\ Collector \notin Processors
  BY UndoTypes, Zenon
<1>3. Asks' = Asks /\ Carries' = Carries
  BY <1>1, <1>2, Zenon DEF Asks, Carries
<1>4. \A p \in Processors : Owes(p)' = Owes(p)
  BY <1>1, <1>2, Zenon DEF Owes, Owing
<1>5. Asks' <= Asks /\ Carries' <= Carries /\ \A p \in Processors : Owes(p)' <= Owes(p)
  <2>1. Asks \in {0, 1} /\ Carries \in {0, 1} /\ \A p \in Processors : Owes(p) \in {0, 1}
    BY UndoTypes, Zenon
  <2> QED
    BY <1>3, <1>4, <2>1, Units, Zenon
<1> QED
  BY <1>1, <1>5, RangesQuiet, Zenon

LEMMA RangesClaim ==
  ASSUME LogTypes, LogTypes', Ranges, NEW to \in {"P mutex", "write"},
         SemStep(Collector, "P space", "space", -1, to), ~Refused(Collector, "space", -1)
  PROVE  Ranges'
<1> SUFFICES ASSUME hawk'.sem.SEM_UNDO
             PROVE  /\ Fits(semadj'[Collector]["space"], semadj'[Collector]["data"], Asks', Carries', Lines')
                    /\ \A p \in Processors :
                         Borrows(semadj'[p]["space"], semadj'[p]["data"], Owes(p)', sems'["data"],
                                 semadj'[Collector]["data"])
  BY Zenon DEF Ranges, Processors, Collector, SemStep
<1>0. "space" \in Semaphores /\ "space" # "data"
  BY Zenon DEF Semaphores
<1>2. Collector \in Procs /\ Processors \subseteq Procs /\ Collector \notin Processors
  BY UndoTypes, Zenon
<1>h. hawk.sem.SEM_UNDO
  BY Zenon DEF SemStep
<1>u. /\ hawk.sem.SEM_UNDO => UndoneBy(Collector, "space", -1)
      /\ sems'["data"] = IF "space" = "data" THEN sems["data"] + (-1) ELSE sems["data"]
      /\ hawk' = hawk /\ Lines' = Lines
      /\ at[Collector] = "P space" /\ \A r \in Procs : at'[r] = IF r = Collector THEN to ELSE at[r]
  BY <1>0, <1>2, RangesGranted, Units, Zenon
<1>1. /\ \A r \in Procs : /\ semadj'[r]["space"] = IF r = Collector THEN semadj[r]["space"] - (-1)
                                                   ELSE semadj[r]["space"]
                          /\ semadj'[r]["data"] = semadj[r]["data"]
      /\ sems'["data"] = sems["data"] /\ Lines' = Lines
      /\ at[Collector] = "P space" /\ \A r \in Procs : at'[r] = IF r = Collector THEN to ELSE at[r]
  BY <1>0, <1>2, <1>h, <1>u, Zenon DEF UndoneBy
<1>3. Asks = 1 /\ Asks' = 0 /\ Carries' = Carries
  BY <1>1, <1>2, Zenon DEF Asks, Carries
<1>4. \A p \in Processors : Owes(p)' = Owes(p)
  BY <1>1, <1>2, Zenon DEF Owes
<1>5. Fits(semadj'[Collector]["space"], semadj'[Collector]["data"], Asks', Carries', Lines')
  <2>1. Fits(semadj[Collector]["space"], semadj[Collector]["data"], Asks, Carries, Lines)
    BY <1>h, Zenon DEF Ranges
  <2>2. /\ semadj[Collector]["space"] \in Int /\ semadj[Collector]["data"] \in Int
        /\ Asks \in {0, 1} /\ Carries \in {0, 1} /\ Lines \in Nat
    BY UndoTypes, LinesNat, Zenon
  <2>3. Fits(semadj[Collector]["space"] - (-1), semadj[Collector]["data"], 0, Carries, Lines)
    BY <1>3, <2>1, <2>2, FitsSteps
  <2> QED
    BY <1>1, <1>2, <1>3, <2>3, Zenon
<1>6. ASSUME NEW p \in Processors
      PROVE  Borrows(semadj'[p]["space"], semadj'[p]["data"], Owes(p)', sems'["data"], semadj'[Collector]["data"])
  <2>1. Borrows(semadj[p]["space"], semadj[p]["data"], Owes(p), sems["data"], semadj[Collector]["data"])
    BY <1>h, Zenon DEF Ranges
  <2> QED
    BY <1>1, <1>2, <1>4, <2>1, Zenon
<1> QED
  BY <1>5, <1>6

LEMMA RangesFill ==
  ASSUME LogTypes, LogTypes', Ranges,
         SemStep(Collector, "V data", "data", 1, "fgets"), ~Refused(Collector, "data", 1)
  PROVE  Ranges'
<1> SUFFICES ASSUME hawk'.sem.SEM_UNDO
             PROVE  /\ Fits(semadj'[Collector]["space"], semadj'[Collector]["data"], Asks', Carries', Lines')
                    /\ \A p \in Processors :
                         Borrows(semadj'[p]["space"], semadj'[p]["data"], Owes(p)', sems'["data"],
                                 semadj'[Collector]["data"])
  BY Zenon DEF Ranges, Processors, Collector, SemStep
<1>0. "data" \in Semaphores /\ "space" # "data"
  BY Zenon DEF Semaphores
<1>2. Collector \in Procs /\ Processors \subseteq Procs /\ Collector \notin Processors
  BY UndoTypes, Zenon
<1>h. hawk.sem.SEM_UNDO
  BY Zenon DEF SemStep
<1>u. /\ hawk.sem.SEM_UNDO => UndoneBy(Collector, "data", 1)
      /\ sems'["data"] = IF "data" = "data" THEN sems["data"] + 1 ELSE sems["data"]
      /\ hawk' = hawk /\ Lines' = Lines
      /\ at[Collector] = "V data" /\ \A r \in Procs : at'[r] = IF r = Collector THEN "fgets" ELSE at[r]
  BY <1>0, <1>2, RangesGranted, Units, Zenon
<1>1. /\ \A r \in Procs : /\ semadj'[r]["space"] = semadj[r]["space"]
                          /\ semadj'[r]["data"] = IF r = Collector THEN semadj[r]["data"] - 1 ELSE semadj[r]["data"]
      /\ sems'["data"] = sems["data"] + 1 /\ Lines' = Lines
      /\ at[Collector] = "V data" /\ \A r \in Procs : at'[r] = IF r = Collector THEN "fgets" ELSE at[r]
  BY <1>0, <1>2, <1>h, <1>u, Zenon DEF UndoneBy
<1>3. Asks' = Asks /\ Carries = 1 /\ Carries' = 0
  BY <1>1, <1>2, Zenon DEF Asks, Carries
<1>4. \A p \in Processors : Owes(p)' = Owes(p)
  BY <1>1, <1>2, Zenon DEF Owes
<1>5. Fits(semadj'[Collector]["space"], semadj'[Collector]["data"], Asks', Carries', Lines')
  <2>1. Fits(semadj[Collector]["space"], semadj[Collector]["data"], Asks, Carries, Lines)
    BY <1>h, Zenon DEF Ranges
  <2>2. /\ semadj[Collector]["space"] \in Int /\ semadj[Collector]["data"] \in Int
        /\ Asks \in {0, 1} /\ Carries \in {0, 1} /\ Lines \in Nat
    BY UndoTypes, LinesNat, Zenon
  <2>3. Fits(semadj[Collector]["space"], semadj[Collector]["data"] - 1, Asks, 0, Lines)
    BY <1>3, <2>1, <2>2, FitsSteps
  <2> QED
    BY <1>1, <1>2, <1>3, <2>3, Zenon
<1>6. ASSUME NEW p \in Processors
      PROVE  Borrows(semadj'[p]["space"], semadj'[p]["data"], Owes(p)', sems'["data"], semadj'[Collector]["data"])
  <2>1. Borrows(semadj[p]["space"], semadj[p]["data"], Owes(p), sems["data"], semadj[Collector]["data"])
    BY <1>h, Zenon DEF Ranges
  <2>2. /\ semadj[p]["space"] \in Int /\ semadj[p]["data"] \in Int /\ semadj[Collector]["data"] \in Int
        /\ Owes(p) \in {0, 1}
    BY UndoTypes, Zenon
  <2>d. sems["data"] \in Int
    BY UndoTypes, Zenon
  <2>3. Borrows(semadj[p]["space"], semadj[p]["data"], Owes(p), sems["data"] + 1, semadj[Collector]["data"] - 1)
    BY <2>1, <2>2, <2>d, BorrowsSteps
  <2> QED
    BY <1>1, <1>2, <1>4, <2>3, Zenon
<1> QED
  BY <1>5, <1>6

LEMMA RangesTake ==
  ASSUME LogTypes, LogTypes', Ranges, NEW q \in Processors,
         SemStep(q, "P data", "data", -1, "P mutex"), ~Refused(q, "data", -1)
  PROVE  Ranges'
<1> SUFFICES ASSUME hawk'.sem.SEM_UNDO
             PROVE  /\ Fits(semadj'[Collector]["space"], semadj'[Collector]["data"], Asks', Carries', Lines')
                    /\ \A p \in Processors :
                         Borrows(semadj'[p]["space"], semadj'[p]["data"], Owes(p)', sems'["data"],
                                 semadj'[Collector]["data"])
  BY Zenon DEF Ranges, Processors, Collector, SemStep
<1>0. "data" \in Semaphores /\ "space" # "data"
  BY Zenon DEF Semaphores
<1>2. Collector \in Procs /\ Processors \subseteq Procs /\ Collector \notin Processors
  BY UndoTypes, Zenon
<1>h. hawk.sem.SEM_UNDO
  BY Zenon DEF SemStep
<1>u. /\ hawk.sem.SEM_UNDO => UndoneBy(q, "data", -1)
      /\ sems'["data"] = IF "data" = "data" THEN sems["data"] + (-1) ELSE sems["data"]
      /\ hawk' = hawk /\ Lines' = Lines
      /\ at[q] = "P data" /\ \A r \in Procs : at'[r] = IF r = q THEN "P mutex" ELSE at[r]
  BY <1>0, <1>2, RangesGranted, Units, Zenon
<1>1. /\ \A r \in Procs : /\ semadj'[r]["space"] = semadj[r]["space"]
                          /\ semadj'[r]["data"] = IF r = q THEN semadj[r]["data"] - (-1) ELSE semadj[r]["data"]
      /\ sems'["data"] = sems["data"] + (-1) /\ Lines' = Lines
      /\ at[q] = "P data" /\ \A r \in Procs : at'[r] = IF r = q THEN "P mutex" ELSE at[r]
  BY <1>0, <1>2, <1>h, <1>u, Zenon DEF UndoneBy
<1>3. Asks' = Asks /\ Carries' = Carries
  BY <1>1, <1>2, Zenon DEF Asks, Carries
<1>4. Owes(q) = 0 /\ Owes(q)' = 1 /\ \A p \in Processors : p # q => Owes(p)' = Owes(p)
  BY <1>1, <1>2, Zenon DEF Owes, Owing
<1>5. Fits(semadj'[Collector]["space"], semadj'[Collector]["data"], Asks', Carries', Lines')
  <2>1. Fits(semadj[Collector]["space"], semadj[Collector]["data"], Asks, Carries, Lines)
    BY <1>h, Zenon DEF Ranges
  <2> QED
    BY <1>1, <1>2, <1>3, <2>1, Zenon
<1>6. ASSUME NEW p \in Processors
      PROVE  Borrows(semadj'[p]["space"], semadj'[p]["data"], Owes(p)', sems'["data"], semadj'[Collector]["data"])
  <2>1. Borrows(semadj[p]["space"], semadj[p]["data"], Owes(p), sems["data"], semadj[Collector]["data"])
    BY <1>h, Zenon DEF Ranges
  <2>2. /\ semadj[p]["space"] \in Int /\ semadj[p]["data"] \in Int /\ semadj[Collector]["data"] \in Int
        /\ Owes(p) \in {0, 1}
    BY UndoTypes, Zenon
  <2>d. sems["data"] \in Int
    BY UndoTypes, Zenon
  <2>3. /\ Borrows(semadj[p]["space"], semadj[p]["data"], Owes(p), sems["data"] + (-1), semadj[Collector]["data"])
        /\ Owes(p) = 0 =>
             Borrows(semadj[p]["space"], semadj[p]["data"] - (-1), 1, sems["data"] + (-1), semadj[Collector]["data"])
    BY <2>1, <2>2, <2>d, BorrowsSteps
  <2> QED
    BY <1>1, <1>2, <1>4, <2>3, Zenon
<1> QED
  BY <1>5, <1>6

LEMMA RangesGive ==
  ASSUME LogTypes, LogTypes', Ranges, NEW q \in Processors,
         SemStep(q, "V space", "space", 1, "msgsnd"), ~Refused(q, "space", 1)
  PROVE  Ranges'
<1> SUFFICES ASSUME hawk'.sem.SEM_UNDO
             PROVE  /\ Fits(semadj'[Collector]["space"], semadj'[Collector]["data"], Asks', Carries', Lines')
                    /\ \A p \in Processors :
                         Borrows(semadj'[p]["space"], semadj'[p]["data"], Owes(p)', sems'["data"],
                                 semadj'[Collector]["data"])
  BY Zenon DEF Ranges, Processors, Collector, SemStep
<1>0. "space" \in Semaphores /\ "space" # "data"
  BY Zenon DEF Semaphores
<1>2. Collector \in Procs /\ Processors \subseteq Procs /\ Collector \notin Processors
  BY UndoTypes, Zenon
<1>h. hawk.sem.SEM_UNDO
  BY Zenon DEF SemStep
<1>u. /\ hawk.sem.SEM_UNDO => UndoneBy(q, "space", 1)
      /\ sems'["data"] = IF "space" = "data" THEN sems["data"] + 1 ELSE sems["data"]
      /\ hawk' = hawk /\ Lines' = Lines
      /\ at[q] = "V space" /\ \A r \in Procs : at'[r] = IF r = q THEN "msgsnd" ELSE at[r]
  BY <1>0, <1>2, RangesGranted, Units, Zenon
<1>1. /\ \A r \in Procs : /\ semadj'[r]["space"] = IF r = q THEN semadj[r]["space"] - 1 ELSE semadj[r]["space"]
                          /\ semadj'[r]["data"] = semadj[r]["data"]
      /\ sems'["data"] = sems["data"] /\ Lines' = Lines
      /\ at[q] = "V space" /\ \A r \in Procs : at'[r] = IF r = q THEN "msgsnd" ELSE at[r]
  BY <1>0, <1>2, <1>h, <1>u, Zenon DEF UndoneBy
<1>3. Asks' = Asks /\ Carries' = Carries
  BY <1>1, <1>2, Zenon DEF Asks, Carries
<1>4. Owes(q) = 1 /\ Owes(q)' = 0 /\ \A p \in Processors : p # q => Owes(p)' = Owes(p)
  BY <1>1, <1>2, Zenon DEF Owes, Owing
<1>5. Fits(semadj'[Collector]["space"], semadj'[Collector]["data"], Asks', Carries', Lines')
  <2>1. Fits(semadj[Collector]["space"], semadj[Collector]["data"], Asks, Carries, Lines)
    BY <1>h, Zenon DEF Ranges
  <2> QED
    BY <1>1, <1>2, <1>3, <2>1, Zenon
<1>6. ASSUME NEW p \in Processors
      PROVE  Borrows(semadj'[p]["space"], semadj'[p]["data"], Owes(p)', sems'["data"], semadj'[Collector]["data"])
  <2>1. Borrows(semadj[p]["space"], semadj[p]["data"], Owes(p), sems["data"], semadj[Collector]["data"])
    BY <1>h, Zenon DEF Ranges
  <2>2. /\ semadj[p]["space"] \in Int /\ semadj[p]["data"] \in Int /\ semadj[Collector]["data"] \in Int
        /\ Owes(p) \in {0, 1}
    BY UndoTypes, Zenon
  <2>d. sems["data"] \in Int
    BY UndoTypes, Zenon
  <2>3. Owes(p) = 1 =>
          Borrows(semadj[p]["space"] - 1, semadj[p]["data"], 0, sems["data"], semadj[Collector]["data"])
    BY <2>1, <2>2, <2>d, BorrowsSteps
  <2> QED
    BY <1>1, <1>2, <1>4, <2>1, <2>3, Zenon
<1> QED
  BY <1>5, <1>6

(* A step of a process that operates on no semaphore. *)
LEMMA RangesGoes ==
  ASSUME LogTypes, LogTypes', Ranges, NEW q \in Procs, NEW from, NEW to, Goes(q, from, to),
         hawk' = hawk, Lines' = Lines, sems' = sems, semadj' = semadj,
         \/ q = Collector /\ to \in {"fgets", "ended"}
         \/ q = Collector /\ from = "write" /\ to \in {"V mutex", "V data"}
         \/ q # Collector /\ from = "read" /\ to = "V mutex"
         \/ q # Collector /\ from = "msgsnd" /\ to = "P data"
  PROVE  Ranges'
<1>1. at \in [Procs -> Stations]
  BY Zenon DEF LogTypes
<1>2. at[q] = from /\ \A r \in Procs : at'[r] = IF r = q THEN to ELSE at[r]
  BY <1>1, Zenon DEF Goes
<1>3. Collector \in Procs /\ Processors \subseteq Procs /\ Collector \notin Processors
  BY UndoTypes, Zenon
<1>4. (Asks' = 0 \/ Asks' = Asks) /\ (Carries' = 0 \/ Carries' = Carries)
  BY <1>2, <1>3, Zenon DEF Asks, Carries
<1>5. \A p \in Processors : Owes(p)' = Owes(p)
  BY <1>2, <1>3, Zenon DEF Owes, Owing
<1>6. Asks' <= Asks /\ Carries' <= Carries /\ \A p \in Processors : Owes(p)' <= Owes(p)
  <2>1. Asks \in {0, 1} /\ Carries \in {0, 1} /\ \A p \in Processors : Owes(p) \in {0, 1}
    BY UndoTypes, Zenon
  <2> QED
    BY <1>4, <1>5, <2>1, Units, Zenon
<1>7. sems'["data"] = sems["data"]
  BY Zenon
<1>8. \A r \in Procs : semadj'[r]["space"] = semadj[r]["space"] /\ semadj'[r]["data"] = semadj[r]["data"]
  BY Zenon
<1> QED
  BY <1>6, <1>7, <1>8, RangesQuiet, Zenon

LEMMA LinesGrow ==
  ASSUME LogTypes, hawk' = hawk, line' = line + 1
  PROVE  /\ Collected' = Collected \/ Collected' = Collected \cup {line + 1}
         /\ Collected' = IF hawk.collector.follows /\ Log[line + 1] = {} THEN Collected
                         ELSE Collected \cup {line + 1}
         /\ line + 1 \notin Collected
<1>1. line \in Nat
  <2>1. line \in 0 .. Len(Log)
    BY Zenon DEF LogTypes
  <2> QED
    BY <2>1, SizeFacts
<1>2. 1 .. line + 1 = (1 .. line) \cup {line + 1} /\ line + 1 \notin 1 .. line
  BY <1>1
<1>3. Collected' = {n \in 1 .. line + 1 : ~(hawk.collector.follows /\ Log[n] = {})}
  BY Zenon DEF Collected
<1>4. Collected' = IF hawk.collector.follows /\ Log[line + 1] = {} THEN Collected ELSE Collected \cup {line + 1}
  BY <1>2, <1>3, Zenon DEF Collected
<1> QED
  BY <1>2, <1>4, Zenon DEF Collected

LEMMA ReadLineRanges == ASSUME LogTypes, LogTypes', Ranges, ReadLine PROVE Ranges'
<1>1. hawk' = hawk /\ line' = line + 1 /\ sems' = sems /\ semadj' = semadj
  BY Zenon DEF ReadLine
<1>2. PICK to : to = (IF hawk.collector.follows /\ Log[line + 1] = {} THEN "fgets" ELSE "P space")
                /\ Goes(Collector, "fgets", to)
  BY <1>1, Zenon DEF ReadLine
<1>3. Collector \in Procs /\ Processors \subseteq Procs /\ Collector \notin Processors
  BY UndoTypes, Zenon
<1>4. CASE hawk.collector.follows /\ Log[line + 1] = {}
  <2>1. Lines' = Lines
    BY <1>1, <1>4, LinesGrow, Zenon DEF Lines
  <2> QED
    BY <1>1, <1>2, <1>3, <1>4, <2>1, RangesGoes, Zenon
<1>5. CASE ~(hawk.collector.follows /\ Log[line + 1] = {})
  <2>1. Collected' = Collected \cup {line + 1} /\ line + 1 \notin Collected
    BY <1>1, <1>5, LinesGrow, Zenon
  <2>2. Lines' = Lines + 1
    BY <2>1, LinesNat, FS_AddElement, Zenon DEF Lines
  <2>3. at \in [Procs -> Stations]
    BY Zenon DEF LogTypes
  <2>4. at[Collector] = "fgets" /\ \A r \in Procs : at'[r] = IF r = Collector THEN "P space" ELSE at[r]
    BY <1>2, <1>5, <2>3, Zenon DEF Goes
  <2>5. Asks = 0 /\ Asks' = 1 /\ Carries = 0 /\ Carries' = 1
    BY <1>3, <2>4, Zenon DEF Asks, Carries
  <2>6. \A p \in Processors : Owes(p)' = Owes(p)
    BY <1>3, <2>4, Zenon DEF Owes
  <2> QED
    BY <1>1, <2>2, <2>5, <2>6, RangesRead, Zenon
<1> QED
  BY <1>4, <1>5, Zenon

LEMMA CollectorRanges ==
  ASSUME LogTypes, LogTypes', Books, Ranges, ~Overdrawn, collector PROVE Ranges'
<1>0. Collector \in Procs
  BY UndoTypes, Zenon
<1>1. CASE OpenLog \/ EndOfLog \/ WriteBlock
  <2>1. hawk' = hawk /\ line' = line /\ sems' = sems /\ semadj' = semadj
    BY <1>1, Zenon DEF OpenLog, EndOfLog, WriteBlock
  <2>2. Lines' = Lines
    BY <2>1, LinesStay, Zenon
  <2>3. PICK from, to :
          /\ Goes(Collector, from, to)
          /\ to \in {"fgets", "ended"} \/ (from = "write" /\ to \in {"V mutex", "V data"})
    BY <1>1, Zenon DEF OpenLog, EndOfLog, WriteBlock
  <2> QED
    BY <1>0, <2>1, <2>2, <2>3, RangesGoes, Zenon
<1>2. CASE ReadLine
  BY <1>2, ReadLineRanges, Zenon
<1>3. CASE ClaimSpace
  <2>1. PICK to : to \in {"P mutex", "write"} /\ SemStep(Collector, "P space", "space", -1, to)
    BY <1>3, Zenon DEF ClaimSpace
  <2>2. CollectorOp("P space", "space", -1, to)
    BY <2>1, Zenon DEF CollectorOp
  <2>3. ~Refused(Collector, "space", -1)
    BY <2>1, <2>2, CollectorGranted, Zenon
  <2> QED
    BY <2>1, <2>3, RangesClaim, Zenon
<1>4. CASE SemStep(Collector, "P mutex", "mutex", -1, "write")
  BY <1>0, <1>4, RangesMutex, Units, Zenon
<1>5. CASE SemStep(Collector, "V mutex", "mutex", 1, "V data")
  BY <1>0, <1>5, RangesMutex, Units, Zenon
<1>6. CASE SemStep(Collector, "V data", "data", 1, "fgets")
  <2>1. CollectorOp("V data", "data", 1, "fgets")
    BY Zenon DEF CollectorOp
  <2>2. ~Refused(Collector, "data", 1)
    BY <1>6, <2>1, CollectorGranted, Zenon
  <2> QED
    BY <1>6, <2>2, RangesFill, Zenon
<1> QED
  BY <1>1, <1>2, <1>3, <1>4, <1>5, <1>6, Zenon DEF collector

LEMMA ProcessorRanges ==
  ASSUME LogTypes, LogTypes', Books, Ranges, ~Overdrawn, NEW p \in Processors, processor(p) PROVE Ranges'
<1>0. p \in Procs /\ p # Collector
  BY UndoTypes, Zenon
<1>1. CASE ReadBlock(p) \/ SendMsg(p)
  <2>1. hawk' = hawk /\ line' = line /\ sems' = sems /\ semadj' = semadj
    BY <1>1, Zenon DEF ReadBlock, SendMsg
  <2>2. Lines' = Lines
    BY <2>1, LinesStay, Zenon
  <2>3. Goes(p, "read", "V mutex") \/ Goes(p, "msgsnd", "P data")
    BY <1>1, Zenon DEF ReadBlock, SendMsg
  <2> QED
    BY <1>0, <2>1, <2>2, <2>3, RangesGoes, Zenon
<1>2. CASE SemStep(p, "P data", "data", -1, "P mutex")
  <2>1. ProcessorOp("P data", "data", -1, "P mutex")
    BY Zenon DEF ProcessorOp
  <2>2. ~Refused(p, "data", -1)
    BY <1>2, <2>1, ProcessorGranted, Zenon
  <2> QED
    BY <1>2, <2>2, RangesTake, Zenon
<1>3. CASE SemStep(p, "P mutex", "mutex", -1, "read")
  BY <1>0, <1>3, RangesMutex, Units, Zenon
<1>4. CASE SemStep(p, "V mutex", "mutex", 1, "V space")
  BY <1>0, <1>4, RangesMutex, Units, Zenon
<1>5. CASE SemStep(p, "V space", "space", 1, "msgsnd")
  <2>1. ProcessorOp("V space", "space", 1, "msgsnd")
    BY Zenon DEF ProcessorOp
  <2>2. ~Refused(p, "space", 1)
    BY <1>5, <2>1, ProcessorGranted, Zenon
  <2> QED
    BY <1>5, <2>2, RangesGive, Zenon
<1> QED
  BY <1>1, <1>2, <1>3, <1>4, <1>5, Zenon DEF processor

LEMMA SharedRanges ==
  ASSUME LogTypes, LogTypes', Ranges, hawk' = hawk, line' = line, sems' = sems, semadj' = semadj, at' = at
  PROVE  Ranges'
<1>1. Lines' = Lines
  BY LinesStay, Zenon
<1>2. Asks' = Asks /\ Carries' = Carries /\ \A p \in Processors : Owes(p)' = Owes(p)
  BY Zenon DEF Asks, Carries, Owes
<1>3. Asks' <= Asks /\ Carries' <= Carries /\ \A p \in Processors : Owes(p)' <= Owes(p)
  <2>1. Asks \in {0, 1} /\ Carries \in {0, 1} /\ \A p \in Processors : Owes(p) \in {0, 1}
    BY UndoTypes, Zenon
  <2> QED
    BY <1>2, <2>1, Units, Zenon
<1>4. sems'["data"] = sems["data"]
  BY Zenon
<1>5. \A r \in Procs : semadj'[r]["space"] = semadj[r]["space"] /\ semadj'[r]["data"] = semadj[r]["data"]
  BY Zenon
<1> QED
  BY <1>1, <1>3, <1>4, <1>5, RangesQuiet, Zenon

LEMMA RangesStart == ASSUME LogInit PROVE Ranges
<1>0. LogTypes
  BY LogTypesStart
<1>1. /\ at = [r \in Procs |-> IF r = Collector THEN "fopen" ELSE "P data"]
      /\ sems = [s \in Semaphores |-> IF s = "mutex" THEN 1 ELSE IF s = "space" THEN MAX_LOGS ELSE 0]
      /\ semadj = [r \in DOMAIN at |-> [s \in Semaphores |-> 0]]
  BY Zenon DEF LogInit, Procs
<1>2. Collector \in Procs /\ Processors \subseteq Procs
  BY <1>0, UndoTypes, Zenon
<1>3. sems["data"] = 0 /\ \A r \in Procs : semadj[r]["space"] = 0 /\ semadj[r]["data"] = 0
  <2>1. "space" \in Semaphores /\ "data" \in Semaphores /\ DOMAIN at = Procs
    BY <1>1, Zenon DEF Semaphores
  <2> QED
    BY <1>1, <2>1, Zenon
<1>4. Asks = 0 /\ Carries = 0 /\ \A p \in Processors : Owes(p) = 0
  BY <1>1, <1>2, Zenon DEF Asks, Carries, Owes, Owing
<1>5. Lines \in Nat
  BY <1>0, LinesNat, Zenon
<1>6. Fits(0, 0, 0, 0, Lines) /\ Borrows(0, 0, 0, 0, 0)
  BY <1>5 DEF Fits, Borrows
<1> QED
  BY <1>2, <1>3, <1>4, <1>6, Zenon DEF Ranges

(* What the outputer receives, holds and writes stays the same. *)
OutKeeps ==
  \A n \in Nat \ {0} : InQueue(n)' + AtOut(n)' + InFiles(n)' = InQueue(n) + AtOut(n) + InFiles(n)

LEMMA NextTermsNat ==
  ASSUME LogTypes', NEW n PROVE InQueue(n)' \in Nat /\ AtOut(n)' \in Nat /\ InFiles(n)' \in Nat
<1>1. msgs' \in Seq(Message) /\ files' \in [Kinds -> Seq(Nat)]
  BY Zenon DEF LogTypes
<1>2. InQueue(n)' \in Nat
  BY <1>1, QueueFinite, Zenon DEF InQueue
<1>3. InFiles(n)' \in Nat
  BY <1>1, FilesFinite, Zenon DEF InFiles
<1>4. AtOut(n)' \in Nat
  BY DEF AtOut
<1> QED
  BY <1>2, <1>3, <1>4

LEMMA OutBooks ==
  ASSUME LogTypes, LogTypes', Books, UNCHANGED shared, OutKeeps
  PROVE  Books'
<1>1. /\ hawk' = hawk /\ sems' = sems /\ at' = at /\ line' = line /\ raw_log' = raw_log
      /\ blocks' = blocks /\ write_pos' = write_pos /\ read_pos' = read_pos
  BY Zenon DEF shared, ringState
<1>2. Readers' = Readers /\ Returning' = Returning /\ Filled' = Filled /\ Claimed' = Claimed
  BY <1>1, Zenon DEF Readers, Returning, Filled, Claimed, Count, InStep, Processors
<1>3. Unread' = Unread
  BY <1>1, <1>2, UnreadSum, UnreadSumNext, Zenon
<1>4. sems'["space"] + Unread' + Claimed' + Returning' = MAX_LOGS
  BY <1>1, <1>2, <1>3, Zenon DEF Books
<1>5. write_pos' = (read_pos' + Unread') % MAX_LOGS
  BY <1>1, <1>3, Zenon DEF Books
<1>6. ASSUME NEW n \in Nat \ {0} PROVE Places(n)' = Places(n)
  <2>1. OnHand(n)' = OnHand(n) /\ InRing(n)' = InRing(n) /\ InWork(n)' = InWork(n)
    BY <1>1, <1>3, Zenon DEF OnHand, InRing, InWork, WorkSet, Processors
  <2>2. /\ OnHand(n) \in Nat /\ InRing(n) \in Nat /\ InWork(n) \in Nat /\ InQueue(n) \in Nat /\ AtOut(n) \in Nat
        /\ InFiles(n) \in Nat
    BY TermsNat
  <2>3. InQueue(n)' \in Nat /\ AtOut(n)' \in Nat /\ InFiles(n)' \in Nat
    BY NextTermsNat, Zenon
  <2>4. InQueue(n)' + AtOut(n)' + InFiles(n)' = InQueue(n) + AtOut(n) + InFiles(n)
    BY Zenon DEF OutKeeps
  <2>5. /\ Places(n) = OnHand(n) + InRing(n) + InWork(n) + InQueue(n) + AtOut(n) + InFiles(n)
        /\ Places(n)' = OnHand(n) + InRing(n) + InWork(n) + InQueue(n)' + AtOut(n)' + InFiles(n)'
    BY <2>1, PlacesSum, PlacesSumNext, Zenon
  <2> QED
    BY <2>2, <2>3, <2>4, <2>5
<1> QED
  BY <1>1, <1>4, <1>5, <1>6, Balance, Zenon

LEMMA ReceiveBooks == ASSUME LogTypes, Books, LogTypes', Receive PROVE Books'
<1>1. UNCHANGED shared /\ files' = files /\ opc = "msgrcv" /\ opc' = "take"
  BY Zenon DEF Receive
<1>2. ASSUME NEW n \in Nat \ {0}
      PROVE InQueue(n)' + AtOut(n)' + InFiles(n)' = InQueue(n) + AtOut(n) + InFiles(n)
  <2>1. InFiles(n)' = InFiles(n)
    BY <1>1, Zenon DEF InFiles
  <2>2. AtOut(n) = 0
    BY <1>1 DEF AtOut
  <2>3. InQueue(n)' \in Nat /\ InFiles(n) \in Nat /\ InQueue(n) \in Nat
    BY NextTermsNat, TermsNat, Zenon
  <2>4. CASE hawk.outputer.finds
    <3>1. msgs # <<>> /\ msg' = Head(msgs) /\ msgs' = Tail(msgs) /\ msgs \in Seq(Message)
      BY <2>4, Zenon DEF Receive, LogTypes
    <3> PICK v : v = Head(msgs).mtext
      OBVIOUS
    <3>2. AtOut(n)' = Same(v, n)
      <4>1. msg'.mtext = v
        BY <3>1, Zenon
      <4> QED
        BY <1>1, <4>1 DEF AtOut, Same
    <3>3. InQueue(n) = InQueue(n)' + Same(v, n)
      BY <3>1, QueueShrinks, Zenon DEF InQueue
    <3> PICK o : o = Same(v, n)
      OBVIOUS
    <3>4. o \in {0, 1}
      BY DEF Same
    <3>5. InQueue(n) = InQueue(n)' + o /\ AtOut(n)' = o
      BY <3>2, <3>3, Zenon
    <3> QED
      BY <2>1, <2>2, <2>3, <3>4, <3>5
  <2>5. CASE ~hawk.outputer.finds
    <3>1. msg' = NoMsg /\ msgs' = msgs
      BY <2>5, Zenon DEF Receive
    <3>2. AtOut(n)' = 0
      <4>1. msg'.mtext = 0
        BY <3>1 DEF NoMsg
      <4> QED
        BY <4>1 DEF AtOut
    <3>3. InQueue(n)' = InQueue(n)
      BY <3>1, Zenon DEF InQueue
    <3> QED
      BY <2>1, <2>2, <3>2, <3>3, Zenon
  <2> QED
    BY <2>4, <2>5, Zenon
<1>3. OutKeeps
  BY <1>2, Zenon DEF OutKeeps
<1> QED
  BY <1>1, <1>3, OutBooks, Zenon

LEMMA WriteMsgBooks == ASSUME LogTypes, Books, LogTypes', WriteMsg PROVE Books'
<1>1. UNCHANGED shared /\ msgs' = msgs /\ msg' = msg /\ opc = "write" /\ opc' = "msgrcv"
  BY Zenon DEF WriteMsg
<1>2. ASSUME NEW n \in Nat \ {0}
      PROVE InQueue(n)' + AtOut(n)' + InFiles(n)' = InQueue(n) + AtOut(n) + InFiles(n)
  <2>1. InQueue(n)' = InQueue(n)
    BY <1>1, Zenon DEF InQueue
  <2>2. AtOut(n)' = 0
    BY <1>1 DEF AtOut
  <2>3. InFiles(n)' \in Nat /\ InFiles(n) \in Nat /\ InQueue(n) \in Nat
    BY NextTermsNat, TermsNat, Zenon
  <2>4. CASE hawk.outputer.finds
    <3>1. msg \in Message /\ files \in [Kinds -> Seq(Nat)]
      BY Zenon DEF LogTypes
    <3>2. msg.mtype \in Kinds /\ msg.mtext \in Nat
      BY <3>1, MessageFields, Zenon
    <3>3. files' = [files EXCEPT ![msg.mtype] = Append(files[msg.mtype], msg.mtext)]
      <4>1. files' = [files EXCEPT ![msg.mtype] = Append(@, msg.mtext)]
        BY <2>4, Zenon DEF WriteMsg
      <4> QED
        BY <3>1, <3>2, <4>1
    <3> PICK v : v = msg.mtext
      OBVIOUS
    <3>4. InFiles(n)' = InFiles(n) + Same(v, n)
      BY <3>1, <3>2, <3>3, FilesGrow, ZenonT(60) DEF InFiles
    <3>5. AtOut(n) = Same(v, n)
      BY <1>1 DEF AtOut, Same
    <3> PICK o : o = Same(v, n)
      OBVIOUS
    <3>6. o \in {0, 1}
      BY DEF Same
    <3>7. InFiles(n)' = InFiles(n) + o /\ AtOut(n) = o
      BY <3>4, <3>5, Zenon
    <3> QED
      BY <2>1, <2>2, <2>3, <3>6, <3>7
  <2>5. CASE ~hawk.outputer.finds
    <3>1. files' = files /\ msg.mtext = 0
      BY <2>5, Zenon DEF WriteMsg, LogTypes
    <3>2. AtOut(n) = 0
      BY <3>1 DEF AtOut
    <3>3. InFiles(n)' = InFiles(n)
      BY <3>1, Zenon DEF InFiles
    <3> QED
      BY <2>1, <2>2, <3>2, <3>3, Zenon
  <2> QED
    BY <2>4, <2>5, Zenon
<1>3. OutKeeps
  BY <1>2, Zenon DEF OutKeeps
<1> QED
  BY <1>1, <1>3, OutBooks, Zenon

LEMMA OutputerBooks ==
  ASSUME LogTypes, Books, LogTypes', outputer \/ sigalrm_handler \/ Second PROVE Books'
<1>1. CASE Receive
  BY <1>1, ReceiveBooks, Zenon
<1>2. CASE WriteMsg
  BY <1>2, WriteMsgBooks, Zenon
<1>3. CASE OpenFiles \/ LoadToken \/ StoreToken \/ sigalrm_handler \/ Second
  <2>1. UNCHANGED shared /\ msgs' = msgs /\ msg' = msg /\ files' = files
    BY <1>3, Zenon DEF OpenFiles, LoadToken, StoreToken, sigalrm_handler, Second
  <2>2. opc' \in {"take", "store", "write"} <=> opc \in {"take", "store", "write"}
    BY <1>3 DEF OpenFiles, LoadToken, StoreToken, sigalrm_handler, Second
  <2>3. ASSUME NEW n PROVE InQueue(n)' = InQueue(n) /\ AtOut(n)' = AtOut(n) /\ InFiles(n)' = InFiles(n)
    BY <2>1, <2>2, Zenon DEF InQueue, AtOut, InFiles
  <2>4. OutKeeps
    BY <2>3, Zenon DEF OutKeeps
  <2> QED
    BY <2>1, <2>4, OutBooks, Zenon
<1> QED
  BY <1>1, <1>2, <1>3, Zenon DEF outputer

LEMMA BooksStart == ASSUME LogInit PROVE Books
<1>0. LogTypes
  BY LogTypesStart
<1>1. /\ at = [r \in Procs |-> IF r = Collector THEN "fopen" ELSE "P data"]
      /\ sems = [s \in Semaphores |-> IF s = "mutex" THEN 1 ELSE IF s = "space" THEN MAX_LOGS ELSE 0]
      /\ line = 0 /\ msgs = <<>> /\ opc = "fopen" /\ write_pos = 0 /\ read_pos = 0
      /\ files = [f \in {"info", "warn", "error", "kernel"} |-> <<>>] /\ hawk \in Hawks
  BY Zenon DEF LogInit, Procs
<1>2. at[Collector] = "fopen" /\ \A p \in Processors : at[p] = "P data"
  BY <1>1, ProcsFacts
<1>3. sems["space"] = MAX_LOGS /\ sems["data"] = 0
  BY <1>1 DEF Semaphores
<1>4. \A L : "P data" \notin L => Count(L) = 0
  <2>1. ASSUME NEW L, "P data" \notin L PROVE Count(L) = 0
    <3>1. {p \in Processors : InStep(p, L)} = {}
      BY <1>2, <2>1, Zenon DEF InStep
    <3> QED
      BY <3>1, FS_EmptySet, Zenon DEF Count
  <2> QED
    BY <2>1, Zenon
<1>5. Readers = 0 /\ Returning = 0 /\ Filled = 0 /\ Claimed = 0
  <2>1. "P data" \notin {"P mutex", "read"} /\ "P data" \notin {"V mutex", "V space"}
    OBVIOUS
  <2>2. Readers = 0 /\ Returning = 0
    BY <1>4, <2>1, Zenon DEF Readers, Returning
  <2>3. Filled = 0 /\ Claimed = 0
    BY <1>2 DEF Filled, Claimed
  <2> QED
    BY <2>2, <2>3
<1>6. Unread = 0
  <2>1. Unread = 0 + 0 + 0
    BY <1>3, <1>5, UnreadSum, Zenon
  <2> QED
    BY <2>1
<1>7. sems["space"] + Unread + Claimed + Returning = MAX_LOGS
  BY <1>3, <1>5, <1>6, SizeFacts
<1>8. write_pos = (read_pos + Unread) % MAX_LOGS
  <2>1. 0 = (0 + 0) % MAX_LOGS
    BY SizeFacts, SmallRest
  <2> QED
    BY <1>1, <1>6, <2>1, Zenon
<1>9. ASSUME NEW n \in Nat \ {0} PROVE Places(n) = 0
  <2>1. OnHand(n) = 0
    BY <1>2 DEF OnHand
  <2>2. InRing(n) = 0
    <3>1. RingSet(blocks, read_pos, 0, n) = {}
      BY DEF RingSet
    <3> QED
      BY <1>6, <3>1, FS_EmptySet, Zenon DEF InRing
  <2>3. InWork(n) = 0
    <3>1. "P data" \notin Working
      BY DEF Working
    <3>2. WorkSet(n) = {}
      BY <1>2, <3>1, Zenon DEF WorkSet
    <3> QED
      BY <3>2, FS_EmptySet, Zenon DEF InWork
  <2>4. InQueue(n) = 0
    <3>1. DOMAIN msgs = {}
      <4>1. msgs = <<>>
        BY <1>1, Zenon
      <4> QED
        BY <4>1
    <3>2. QueueSet(msgs, n) = {}
      BY <3>1, Zenon DEF QueueSet
    <3> QED
      BY <3>2, FS_EmptySet, Zenon DEF InQueue
  <2>5. AtOut(n) = 0
    BY <1>1 DEF AtOut
  <2>6. InFiles(n) = 0
    <3>1. \A f \in DOMAIN files : DOMAIN files[f] = {}
      <4>1. DOMAIN files = {"info", "warn", "error", "kernel"} /\ \A f \in DOMAIN files : files[f] = <<>>
        BY <1>1, Zenon
      <4>2. DOMAIN <<>> = {}
        OBVIOUS
      <4> QED
        BY <4>1, <4>2, Zenon
    <3>2. Entries(files) = {}
      <4>1. ASSUME NEW fi \in Entries(files) PROVE FALSE
        <5>1. PICK f \in DOMAIN files : fi \in {f} \X DOMAIN files[f]
          BY <4>1, Zenon DEF Entries
        <5> QED
          BY <3>1, <5>1
      <4> QED
        BY <4>1, Zenon
    <3>3. FileSet(files, n) = {}
      BY <3>2, Zenon DEF FileSet
    <3> QED
      BY <3>3, FS_EmptySet, Zenon DEF InFiles
  <2>7. Places(n) = 0 + 0 + 0 + 0 + 0 + 0
    BY <2>1, <2>2, <2>3, <2>4, <2>5, <2>6, PlacesSum, Zenon
  <2> QED
    BY <2>7
<1>10. Collected = {}
  <2>1. line = 0
    BY <1>1, Zenon
  <2>2. 1 .. line = {}
    BY <2>1
  <2> QED
    BY <2>2, Zenon DEF Collected
<1> QED
  BY <1>7, <1>8, <1>9, <1>10, Zenon DEF Books

(* The inductive invariant.  Only a kill may upset the books, and as long  *)
(* as SEM_UNDO is not overdrawn.                                           *)
LogInv == LogTypes /\ Undoes /\ (killed = {} /\ ~Overdrawn => Books /\ Ranges)

LEMMA StaysOverdrawn == ASSUME LogTypes, LogTypes', LogNext, Overdrawn PROVE Overdrawn'
<1>1. hawk' = hawk /\ (line' = line \/ line' = line + 1)
  BY Zenon DEF LogNext, collector, OpenLog, ReadLine, EndOfLog, WriteBlock, ClaimSpace, SemStep, processor, ReadBlock,
               SendMsg, Kill, outputer, OpenFiles, Receive, LoadToken, StoreToken, WriteMsg, sigalrm_handler, Second,
               shared
<1>2. CASE line' = line
  BY <1>1, <1>2, LinesStay, Zenon DEF Overdrawn
<1>3. CASE line' = line + 1
  <2>1. Collected' = Collected \/ (Collected' = Collected \cup {line + 1} /\ line + 1 \notin Collected)
    BY <1>1, <1>3, LinesGrow, Zenon
  <2>2. IsFiniteSet(Collected) /\ Cardinality(Collected) \in Nat
    BY LinesNat, Zenon DEF Lines
  <2>3. Cardinality(Collected') = Cardinality(Collected) \/ Cardinality(Collected') = Cardinality(Collected) + 1
    BY <2>1, <2>2, FS_AddElement, Zenon
  <2>4. Cardinality(Collected') > SEMVMX
    BY <2>2, <2>3, SizeFacts DEF Overdrawn
  <2> QED
    BY <1>1, <2>4, Zenon DEF Overdrawn
<1> QED
  BY <1>1, <1>2, <1>3, Zenon

LEMMA BooksStep ==
  ASSUME LogTypes, LogTypes', killed = {} /\ ~Overdrawn => Books /\ Ranges, LogNext
  PROVE  killed' = {} /\ ~Overdrawn' => Books' /\ Ranges'
<1> SUFFICES ASSUME killed' = {}, ~Overdrawn' PROVE Books' /\ Ranges'
  OBVIOUS
<1>0. ~Overdrawn
  BY StaysOverdrawn, Zenon
<1>1. ASSUME NEW p \in DOMAIN at, Kill(p) PROVE FALSE
  BY <1>1, Zenon DEF Kill
<1>2. CASE collector
  <2>1. killed' = killed
    BY <1>2, Zenon DEF collector, OpenLog, ReadLine, EndOfLog, WriteBlock, ClaimSpace, SemStep
  <2> QED
    BY <1>0, <1>2, <2>1, CollectorBooks, CollectorRanges, Zenon
<1>3. ASSUME NEW p \in Processors, processor(p) PROVE Books' /\ Ranges'
  <2>1. killed' = killed
    BY <1>3, Zenon DEF processor, ReadBlock, SendMsg, SemStep
  <2> QED
    BY <1>0, <1>3, <2>1, ProcessorBooks, ProcessorRanges, Zenon
<1>4. CASE outputer \/ sigalrm_handler \/ Second
  <2>1. killed' = killed /\ hawk' = hawk /\ line' = line /\ sems' = sems /\ semadj' = semadj /\ at' = at
    BY <1>4, Zenon DEF outputer, OpenFiles, Receive, LoadToken, StoreToken, WriteMsg, sigalrm_handler, Second, shared
  <2> QED
    BY <1>0, <1>4, <2>1, OutputerBooks, SharedRanges, Zenon
<1> QED
  BY <1>1, <1>2, <1>3, <1>4, Zenon DEF LogNext

LEMMA LogStutters == ASSUME LogInv, UNCHANGED logVars PROVE LogInv'
<1>1. /\ hawk' = hawk /\ blocks' = blocks /\ write_pos' = write_pos /\ read_pos' = read_pos
      /\ sems' = sems /\ semadj' = semadj /\ at' = at /\ line' = line /\ raw_log' = raw_log /\ msgs' = msgs
      /\ opc' = opc /\ msg' = msg /\ reg' = reg /\ token' = token /\ elapsed' = elapsed /\ files' = files
      /\ killed' = killed
  BY Zenon DEF logVars, ringState, outState
<1>2. LogTypes'
  BY <1>1, Zenon DEF LogInv, LogTypes, Procs, Processors
<1>3. Undoes'
  BY <1>1, Zenon DEF LogInv, Undoes, Procs, Processors, Holders, InStep
<1>o. Overdrawn' = Overdrawn /\ (Ranges => Ranges')
  <2>1. Collected' = Collected
    BY <1>1, Zenon DEF Collected
  <2>2. Ranges => Ranges'
    BY <1>1, <1>2, SharedRanges, Zenon DEF LogInv
  <2> QED
    BY <1>1, <2>1, <2>2, Zenon DEF Overdrawn
<1>4. Books => Books'
  <2>1. Unread' = Unread /\ Claimed' = Claimed /\ Returning' = Returning /\ Collected' = Collected
    BY <1>1, Zenon DEF Unread, Count, InStep, Processors, Claimed, Returning, Collected
  <2>2. \A n : Places(n)' = Places(n)
    BY <1>1, <2>1, Zenon DEF Places, InStep, Processors
  <2> QED
    BY <1>1, <2>1, <2>2, Zenon DEF Books
<1> QED
  BY <1>1, <1>2, <1>3, <1>4, <1>o, Zenon DEF LogInv

(* LinesAreConserved for every version of LogHawk, any ring, any queue and *)
(* any log: until a process is killed, and for the first SEMVMX lines if   *)
(* the version asks for SEM_UNDO, each line the collector has taken is in  *)
(* exactly one place - its hands, the unread part of the ring, a           *)
(* processor, the queue, the outputer or a file - and write_pos is Unread  *)
(* blocks ahead of read_pos; and, killed or refused or not, with SEM_UNDO  *)
(* the mutex is free or has a living holder.                               *)
THEOREM LinesAreKept == LogSpec => []LinesAreConserved
<1>1. LogInit => LogInv
  BY LogTypesStart, UndoesStarts, BooksStart, RangesStart, Zenon DEF LogInv
<1>2. LogInv /\ [LogNext]_logVars => LogInv'
  <2>1. ASSUME LogInv, LogNext PROVE LogInv'
    BY <2>1, LogTypesStep, UndoesStep, BooksStep, Zenon DEF LogInv
  <2> QED
    BY <2>1, LogStutters, Zenon
<1>3. LogInv => LinesAreConserved
  <2> SUFFICES ASSUME LogInv PROVE LinesAreConserved
    OBVIOUS
  <2>1. LogTypes /\ Undoes
    BY Zenon DEF LogInv
  <2>2. LogTypeOK
    <3>1. /\ blocks \in [0 .. MAX_LOGS - 1 -> Nat] /\ write_pos \in 0 .. MAX_LOGS - 1 /\ read_pos \in 0 .. MAX_LOGS - 1
          /\ sems \in [Semaphores -> Nat] /\ token \in 0 .. hawk.outputer.burst
      BY <2>1, Zenon DEF LogTypes
    <3> QED
      BY <3>1, Zenon DEF LogTypeOK
  <2>3. MutexHasHolder
    BY <2>1, Zenon DEF Undoes, MutexHasHolder
  <2>4. ASSUME killed = {} /\ ~Overdrawn
        PROVE  (\A n \in Collected : Places(n) = 1) /\ write_pos = (read_pos + Unread) % MAX_LOGS
    <3>1. Books
      BY <2>4, Zenon DEF LogInv
    <3>2. Collected \subseteq Nat \ {0}
      <4>1. line \in 0 .. Len(Log)
        BY <2>1, Zenon DEF LogTypes
      <4>2. 1 .. line \subseteq Nat \ {0}
        BY <4>1, SizeFacts
      <4> QED
        BY <4>2, Zenon DEF Collected
    <3> QED
      BY <3>1, <3>2, Zenon DEF Books
  <2> QED
    BY <2>2, <2>3, <2>4, Zenon DEF LinesAreConserved
<1> QED
  BY <1>1, <1>2, <1>3, PTL DEF LogSpec
=============================================================================
