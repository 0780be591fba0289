---------------------------- MODULE TimerProofs -----------------------------
(***************************************************************************)
(* Proofs about what a clock or a signal drives: the gateway's token       *)
(* bucket for every capacity, rate and clock behaviour, the slow cats, the *)
(* anytimer library, the programs that print lines between signals, and    *)
(* the bucket library with threads.                                        *)
(***************************************************************************)
EXTENDS TokenBucket, SlowCat, AnyTimer, SignalLines, TbfThreads, TLAPS

-----------------------------------------------------------------------------
(* The gateway's token bucket.                                             *)

(* While the clock has not been set back, the last refill is not later     *)
(* than the wall time of the last call, as the clock shows it now.         *)
ClockInv ==
  /\ lastCall <= real
  /\ ~setBack => tb_last_time_ms <= lastCall + skew

Inv == BucketTypeOK /\ RateBound /\ ClockInv /\ ServedAtRate

LEMMA Distribute ==
  ASSUME NEW r \in Int, NEW a \in Int, NEW b \in Int, NEW c \in Int
  PROVE  r * (a - c) = r * (b - c) + (a - b) * r
  OBVIOUS

LEMMA Monotone ==
  ASSUME NEW r \in Nat, NEW a \in Int, NEW b \in Int, a <= b
  PROVE  a * r <= b * r
  OBVIOUS

LEMMA ProductType == ASSUME NEW a \in Int, NEW b \in Int PROVE a * b \in Int
  OBVIOUS

(* A refill never takes tokens away and never exceeds the bucket. *)
LEMMA RefillBounds ==
  ASSUME BucketTypeOK, NEW e \in Int
  PROVE  /\ Refilled(e) \in 0 .. 1000 * Capacity
         /\ Refilled(e) >= tb_tokens
         /\ e > 0 => \/ Refilled(e) = tb_tokens + e * Rate
                     \/ Refilled(e) = 1000 * Capacity /\ tb_tokens + e * Rate >= 1000 * Capacity
         /\ e <= 0 => Refilled(e) = tb_tokens
<1>1. e * Rate \in Int /\ (e > 0 => e * Rate >= 0)
  BY BucketAssumption, ProductType, Monotone
<1> QED
  BY <1>1, BucketAssumption DEF BucketTypeOK, Refilled, Lesser

LEMMA InitInv == BucketInit => Inv
<1> SUFFICES ASSUME BucketInit PROVE Inv
  OBVIOUS
<1> USE BucketAssumption DEF BucketInit, now
<1>1. setBack \in BOOLEAN
  OBVIOUS
<1>2. BucketTypeOK
  BY <1>1 DEF BucketTypeOK
<1>3. tb_last_time_ms - opened = 0 /\ Rate * 0 = 0
  OBVIOUS
<1>4. RateBound /\ ClockInv /\ ServedAtRate
  BY <1>3 DEF RateBound, ClockInv, ServedAtRate
<1> QED
  BY <1>2, <1>4 DEF Inv

LEMMA ConsumeInv ==
  ASSUME Inv, NEW count \in Counts, token_bucket_consume(count)
  PROVE  Inv'
<1> DEFINE e == now - tb_last_time_ms
           t == Refilled(e)
<1> USE BucketAssumption
<1>0. count \in Nat /\ e \in Int /\ now \in Int
  BY DEF Inv, BucketTypeOK, now
<1>1. /\ t \in 0 .. 1000 * Capacity
      /\ t >= tb_tokens
      /\ e > 0 => \/ t = tb_tokens + e * Rate
                  \/ t = 1000 * Capacity /\ tb_tokens + e * Rate >= 1000 * Capacity
      /\ e <= 0 => t = tb_tokens
  BY <1>0, RefillBounds DEF Inv
<1>2. /\ tb_last_time_ms' = IF e > 0 THEN now ELSE tb_last_time_ms
      /\ UNCHANGED <<real, skew, setBack, opened>>
      /\ asked' = count /\ gap' = real - lastCall /\ lastCall' = real
  BY <1>0 DEF token_bucket_consume, Inv, BucketTypeOK
<1>3. \/ t >= 1000 * count /\ allowed' = 1 /\ tb_tokens' = t - 1000 * count /\ granted' = granted + count
      \/ t < 1000 * count /\ allowed' = 0 /\ tb_tokens' = t /\ granted' = granted
  BY <1>0, <1>1 DEF token_bucket_consume, Enough, Inv, BucketTypeOK
<1>4. e * Rate \in Int /\ Rate * (tb_last_time_ms - opened) \in Int
  BY <1>0, ProductType DEF Inv, BucketTypeOK
<1> HIDE DEF t
<1>5. BucketTypeOK'
  <2>1. gap' \in Nat
    BY <1>2 DEF Inv, BucketTypeOK, ClockInv
  <2>2. tb_tokens' \in 0 .. 1000 * Capacity /\ allowed' \in {0, 1} /\ granted' \in Nat
    BY <1>0, <1>1, <1>3 DEF Inv, BucketTypeOK
  <2>3. tb_last_time_ms' \in Int /\ opened' <= tb_last_time_ms'
    BY <1>0, <1>2 DEF Inv, BucketTypeOK
  <2> QED
    BY <1>0, <1>2, <2>1, <2>2, <2>3 DEF Inv, BucketTypeOK
<1>6. 1000 * granted' + tb_tokens' = 1000 * granted + t
  BY <1>0, <1>1, <1>3 DEF Inv, BucketTypeOK
<1>7. RateBound'
  <2>1. CASE e > 0
    <3>1. Rate * (now - opened) = Rate * (tb_last_time_ms - opened) + e * Rate
      BY <1>0, Distribute DEF Inv, BucketTypeOK
    <3>2. t <= tb_tokens + e * Rate
      BY <1>0, <1>1, <1>4, <2>1 DEF Inv, BucketTypeOK
    <3>3. tb_last_time_ms' - opened' = now - opened
      BY <1>2, <2>1
    <3> QED
      BY <1>1, <1>4, <1>6, <3>1, <3>2, <3>3 DEF Inv, RateBound, BucketTypeOK
  <2>2. CASE ~(e > 0)
    <3>1. t = tb_tokens /\ tb_last_time_ms' - opened' = tb_last_time_ms - opened
      BY <1>0, <1>1, <1>2, <2>2
    <3> QED
      BY <1>6, <3>1 DEF Inv, RateBound
  <2> QED
    BY <2>1, <2>2
<1>8. ClockInv'
  BY <1>0, <1>2 DEF Inv, ClockInv, BucketTypeOK, now
<1>9. ServedAtRate'
  <2> SUFFICES ASSUME ~setBack, count <= Capacity, (real - lastCall) * Rate >= 1000 * count
               PROVE  allowed' = 1
    BY <1>2 DEF ServedAtRate
  <2>1. real - lastCall \in Nat /\ real - lastCall <= e
    BY DEF Inv, BucketTypeOK, ClockInv, now
  <2>2. e * Rate >= 1000 * count
    BY <1>0, <1>4, <2>1, Monotone, ProductType
  <2>3. t >= 1000 * count
    <3>1. CASE e > 0
      BY <1>0, <1>1, <1>4, <2>2, <3>1 DEF Inv, BucketTypeOK
    <3>2. CASE ~(e > 0)
      <4>1. e = 0
        BY <1>0, <2>1, <3>2
      <4>2. count = 0
        BY <1>0, <2>2, <4>1
      <4> QED
        BY <1>1, <4>2
    <3> QED
      BY <3>1, <3>2
  <2> QED
    BY <1>0, <1>1, <1>3, <2>3
<1> QED
  BY <1>5, <1>7, <1>8, <1>9 DEF Inv

LEMMA WaitInv == ASSUME Inv, Wait PROVE Inv'
  BY BucketAssumption DEF Inv, Wait, BucketTypeOK, RateBound, ClockInv, ServedAtRate

LEMMA SetClockInv == ASSUME Inv, SetClock PROVE Inv'
<1>1. skew' \in Int
  BY BucketAssumption DEF SetClock
<1>2. setBack' \in BOOLEAN /\ (~setBack' => ~setBack /\ skew <= skew')
  <2>1. setBack' = (setBack \/ skew' < skew)
    BY DEF SetClock
  <2>2. setBack' \in BOOLEAN /\ (~setBack' => ~setBack /\ ~(skew' < skew))
    BY <2>1, Zenon
  <2> QED
    BY <1>1, <2>2 DEF Inv, BucketTypeOK
<1> QED
  BY <1>1, <1>2 DEF Inv, SetClock, BucketTypeOK, RateBound, ClockInv, ServedAtRate

LEMMA OpenWindowInv == ASSUME Inv, OpenWindow PROVE Inv'
<1>1. tb_last_time_ms' - opened' = 0 /\ Rate * 0 = 0
  BY BucketAssumption DEF Inv, OpenWindow, BucketTypeOK
<1>2. BucketTypeOK' /\ ClockInv' /\ ServedAtRate'
  BY DEF Inv, OpenWindow, BucketTypeOK, ClockInv, ServedAtRate
<1>3. RateBound'
  BY <1>1, BucketAssumption DEF Inv, OpenWindow, BucketTypeOK, RateBound
<1> QED
  BY <1>2, <1>3 DEF Inv

(* Every call, delay and change of the clock preserves Inv. *)
THEOREM Invariance == BucketSpec => []Inv
<1>1. Inv /\ [BucketNext]_bucketVars => Inv'
  <2> SUFFICES ASSUME Inv, [BucketNext]_bucketVars PROVE Inv'
    OBVIOUS
  <2>1. CASE UNCHANGED bucketVars
    BY <2>1 DEF bucketVars, Inv, BucketTypeOK, RateBound, ClockInv, ServedAtRate
  <2> QED
    BY <2>1, ConsumeInv, WaitInv, SetClockInv, OpenWindowInv DEF BucketNext
<1> QED
  BY InitInv, <1>1, PTL DEF BucketSpec

(* Whatever happens to the clock, no interval lets more through than one   *)
(* full bucket plus the rate times its length.                             *)
THEOREM RateIsBounded == BucketSpec => []RateBound
  BY Invariance, PTL DEF Inv

(* A caller that waits for its tokens gets them unless the clock was set   *)
(* back.                                                                   *)
THEOREM WaitingIsServed == BucketSpec => []ServedAtRate
  BY Invariance, PTL DEF Inv
-----------------------------------------------------------------------------
(* The slow cats and the buckets over SIGALRM.                             *)
LEMMA MinOfTwo ==
  ASSUME NEW a \in Int, NEW b \in Int
  PROVE  Min({a, b}) = IF a <= b THEN a ELSE b
<1> DEFINE m == IF a <= b THEN a ELSE b
<1>1. m \in {a, b} /\ \A y \in {a, b} : m <= y
  OBVIOUS
<1>2. \A x \in {a, b} : (\A y \in {a, b} : x <= y) => x = m
  OBVIOUS
<1>3. Min({a, b}) \in {a, b} /\ \A y \in {a, b} : Min({a, b}) <= y
  <2> HIDE DEF m
  <2> QED
    BY <1>1 DEF Min
<1> QED
  BY <1>2, <1>3

CatTypes ==
  /\ cat \in Cats
  /\ cat.BURST \in Nat
  /\ token \in 0 .. cat.BURST
  /\ reg \in Nat /\ n \in Nat
  /\ left \in Nat /\ out \in Nat /\ out + left = FileLen
  /\ alarms \in 0 .. MaxAlarms

(* What the loop has in its hands: n was taken from the bucket as it was,  *)
(* and since then the bucket has only grown.                               *)
TakesWhatIsThere ==
  /\ catpc = "load" => n <= token
  /\ catpc = "store" => n <= reg /\ reg <= token

(* Bytes taken from the bucket and not yet written. *)
InHand == IF catpc = "read" THEN n ELSE 0

(* Written, in hand and still in the bucket: all of it came with a tick. *)
Credit == alarms < MaxAlarms => out + InHand + token <= CPS * alarms

CatInv == CatTypes /\ TakesWhatIsThere /\ Credit

LEMMA CatInitInv == ASSUME CatInit PROVE CatInv
<1>1. cat.BURST \in Nat
  BY CatAssumption DEF CatInit
<1>2. CPS * 0 = 0
  BY CatAssumption DEF CPS
<1> QED
  BY <1>1, <1>2, CatAssumption DEF CatInit, CatInv, CatTypes, TakesWhatIsThere, Credit, InHand

LEMMA CatLoopInv == ASSUME CatInv, mycat PROVE CatInv'
<1> USE DEF CatInv, CatTypes, TakesWhatIsThere, Credit, InHand, CatGoes
<1>0. BUFSIZE \in Nat /\ MaxAlarms \in Nat /\ FileLen \in Nat /\ CPS * alarms \in Int /\ cat \in Cats
  BY CatAssumption DEF CPS
<1>1. CASE OpenFile \/ TestToken \/ Pause \/ LoadToken
  BY <1>0, <1>1 DEF OpenFile, TestToken, Pause, LoadToken
<1>2. CASE ChooseN
  BY <1>0, <1>2, MinOfTwo DEF ChooseN
<1>3. CASE StoreToken
  BY <1>0, <1>3 DEF StoreToken
<1>4. CASE ReadWrite
  BY <1>0, <1>4, MinOfTwo DEF ReadWrite
<1> QED
  BY <1>1, <1>2, <1>3, <1>4 DEF mycat

LEMMA CatTickInv == ASSUME CatInv, sig_handler PROVE CatInv'
<1> USE DEF CatInv, CatTypes
<1>0. BUFSIZE \in Nat /\ MaxAlarms \in Nat /\ FileLen \in Nat /\ CPS = BUFSIZE /\ cat \in Cats
  BY CatAssumption DEF CPS
<1>1. /\ token' \in 0 .. cat.BURST /\ token <= token' /\ token' <= token + CPS
      /\ alarms' = IF alarms < MaxAlarms THEN alarms + 1 ELSE MaxAlarms
  BY <1>0, MinOfTwo DEF sig_handler
<1>2. UNCHANGED <<cat, reg, n, left, out>> /\ (catpc' # catpc => catpc = "pause" /\ catpc' = "test")
  BY DEF sig_handler
<1>3. CatTypes' /\ TakesWhatIsThere'
  BY <1>0, <1>1, <1>2 DEF TakesWhatIsThere
<1>4. Credit'
  <2>1. CPS * (alarms + 1) = CPS * alarms + CPS /\ CPS * alarms \in Int
    BY <1>0
  <2>2. InHand' = InHand /\ InHand \in Nat
    BY <1>2 DEF InHand
  <2>3. CASE alarms' < MaxAlarms
    <3>1. alarms < MaxAlarms /\ alarms' = alarms + 1 /\ CPS' = CPS
      BY <1>0, <1>1, <2>3 DEF CPS
    <3>2. CPS' * alarms' = CPS * alarms + CPS
      BY <2>1, <3>1
    <3>3. out + InHand + token <= CPS * alarms
      BY <3>1 DEF Credit
    <3>4. /\ out' = out /\ out \in Int /\ token \in Int /\ token' \in Int /\ token' <= token + CPS
          /\ CPS \in Int
      BY <1>0, <1>1, <1>2
    <3>5. out' + InHand' + token' <= CPS' * alarms'
      <4> HIDE DEF CatInv, CatTypes
      <4> QED
        BY <2>1, <2>2, <3>2, <3>3, <3>4
    <3> QED
      BY <3>5 DEF Credit
  <2> QED
    BY <2>3 DEF Credit
<1> QED
  BY <1>3, <1>4

(* No slow cat writes more than its alarms allow, however often SIGALRM    *)
(* falls between the load and the store of the bucket; for every burst,    *)
(* buffer size and file.                                                   *)
THEOREM CatRate == CatSpec => []CatKeepsRate
<1>1. CatInv /\ [CatNext]_catVars => CatInv'
  <2> SUFFICES ASSUME CatInv, [CatNext]_catVars PROVE CatInv'
    OBVIOUS
  <2>1. CASE UNCHANGED catVars
    BY <2>1 DEF catVars, CatInv, CatTypes, TakesWhatIsThere, Credit, InHand, CPS
  <2> QED
    BY <2>1, CatLoopInv, CatTickInv DEF CatNext
<1>2. CatInv => CatKeepsRate
  <2> SUFFICES ASSUME CatInv PROVE out <= CPS * alarms
    BY DEF CatInv, CatTypes, CatKeepsRate
  <2>1. CPS * alarms \in Int /\ CPS * MaxAlarms \in Int /\ FileLen <= CPS * MaxAlarms
    BY CatAssumption DEF CPS, CatInv, CatTypes
  <2>2. CASE alarms < MaxAlarms
    BY <2>1, <2>2 DEF CatInv, CatTypes, Credit, InHand
  <2>3. CASE alarms = MaxAlarms
    BY <2>1, <2>3, CatAssumption DEF CatInv, CatTypes
  <2> QED
    BY <2>2, <2>3, CatAssumption DEF CatInv, CatTypes
<1> QED
  BY CatInitInv, <1>1, <1>2, PTL DEF CatSpec

-----------------------------------------------------------------------------
(* The programs that print lines between signals.                          *)
(* Only signals that the program handles are pending. *)
OnlyHandled ==
  /\ sigint \in BOOLEAN /\ sigrt \in Nat
  /\ sigint => "INT" \in prog.handles
  /\ sigrt > 0 => "RT" \in prog.handles

(* From sigprocmask before a line up to the end of the line, and on to the *)
(* sigsuspend of the programs that wait, all of them are blocked.          *)
Blocked == sigpc \in {"line", "suspend"} => mask = prog.handles /\ marks = 0

LineInv ==
  /\ OnlyHandled /\ Blocked
  /\ sigpc # "line" => column = 0
  /\ mixed = FALSE

LEMMA NothingGetsIn == ASSUME LineInv, sigpc \in {"line", "suspend"} PROVE Deliverable = {}
  BY DEF LineInv, OnlyHandled, Blocked, Deliverable

LEMMA HandledInv ==
  ASSUME LineInv, NEW S, Handled(S), column = 0, UNCHANGED prog, "RT" \in S => sigrt > 0
  PROVE  OnlyHandled' /\ mixed' = FALSE
<1>1. sigrt' \in Nat /\ (sigrt' > 0 => "RT" \in prog'.handles)
  BY DEF LineInv, OnlyHandled, Handled
<1>2. sigint' \in BOOLEAN /\ (sigint' => "INT" \in prog'.handles)
  BY Zenon DEF LineInv, OnlyHandled, Handled
<1>3. ~(column > 0)
  OBVIOUS
<1>4. mixed' = FALSE
  BY <1>3, Zenon DEF LineInv, Handled
<1> QED
  BY <1>1, <1>2, <1>4 DEF OnlyHandled

LEMMA LineStep == ASSUME LineInv, SignalNext PROVE LineInv'
<1>1. ASSUME NEW sig \in {"INT", "RT"}, Send(sig) PROVE LineInv'
  <2>1. sigrt' \in Nat /\ (sigrt' > 0 => "RT" \in prog'.handles)
    BY <1>1 DEF LineInv, OnlyHandled, Send
  <2>2. sigint' \in BOOLEAN /\ (sigint' => "INT" \in prog'.handles)
    BY <1>1, Zenon DEF LineInv, OnlyHandled, Send
  <2> QED
    BY <1>1, <2>1, <2>2, Zenon DEF LineInv, OnlyHandled, Blocked, Send
<1>2. CASE HandleSignal
  <2>1. sigpc \notin {"line", "suspend"} /\ column = 0
    BY <1>2, NothingGetsIn DEF HandleSignal, LineInv
  <2>2. PICK s \in Deliverable : Handled({s})
    BY <1>2 DEF HandleSignal
  <2>3. OnlyHandled' /\ mixed' = FALSE
    BY <1>2, <2>1, <2>2, HandledInv DEF HandleSignal, Deliverable
  <2> QED
    BY <1>2, <2>1, <2>3 DEF HandleSignal, LineInv, Blocked
<1>3. CASE sigsuspend
  <2>1. column = 0
    BY <1>3 DEF sigsuspend, LineInv
  <2>2. OnlyHandled' /\ mixed' = FALSE
    BY <1>3, <2>1, HandledInv DEF sigsuspend
  <2> QED
    BY <1>3, <2>1, <2>2 DEF sigsuspend, LineInv, Blocked
<1>4. CASE StartLine \/ Star \/ EndLine \/ Unmasked
  <2>0. UNCHANGED <<prog, sigint, sigrt, mixed>>
    BY <1>4, Zenon DEF StartLine, Star, EndLine, Unmasked
  <2>1. OnlyHandled' /\ mixed' = FALSE
    BY <2>0, Zenon DEF LineInv, OnlyHandled
  <2> QED
    BY <1>4, <2>1 DEF LineInv, Blocked, StartLine, Star, EndLine, Unmasked
<1> QED
  BY <1>1, <1>2, <1>3, <1>4 DEF SignalNext

(* For any programs that block what they handle while they print a line,   *)
(* no handler prints inside one, and none runs between the end of the line *)
(* and sigsuspend.                                                         *)
THEOREM LinesStayWhole == SignalSpec => []LinesAreWhole
<1>1. SignalInit => LineInv
  <2>1. 0 \in Nat /\ ~(0 > 0)
    OBVIOUS
  <2> QED
    BY <2>1, Zenon DEF SignalInit, LineInv, OnlyHandled, Blocked
<1>2. LineInv /\ [SignalNext]_signalVars => LineInv'
  <2>1. ASSUME LineInv, UNCHANGED signalVars PROVE LineInv'
    BY <2>1, Zenon DEF signalVars, LineInv, OnlyHandled, Blocked
  <2> QED
    BY <2>1, LineStep
<1>3. LineInv => LinesAreWhole
  BY DEF LineInv, Blocked, LinesAreWhole
<1> QED
  BY <1>1, <1>2, <1>3, PTL DEF SignalSpec

-----------------------------------------------------------------------------
(* anytimer.                                                               *)
(* A slot that is in use counts down for its client and will call back; a  *)
(* free one is nobody's.                                                   *)
Serves(s) ==
  IF Used(s) THEN /\ timer_libs[s].callback
                  /\ client[s].age < client[s].asked
                  /\ timer_libs[s].remain = client[s].asked - client[s].age
             ELSE client[s].asked = 0

Removing(s) == timerpc \in {"callback", "is_used"} /\ slot = s

Slot == [remain : Int, callback : BOOLEAN, is_used : {0, 1}]

SlotTypes ==
  /\ timer_libs \in [TimerSlots -> Slot]
  /\ client \in [TimerSlots -> [asked : Nat, age : Nat]]
  /\ timerpc # "idle" => slot \in TimerSlots

(* What the assignments of a call have done so far. *)
Halfway ==
  /\ timerpc \in {"fields", "used"} => ~Used(slot) /\ seconds \in Nat \ {0}
  /\ timerpc = "used" => timer_libs[slot].remain = seconds /\ timer_libs[slot].callback
  /\ timerpc = "is_used" => ~timer_libs[slot].callback

AllServe == \A s \in TimerSlots : ~Removing(s) => Serves(s)

TimerInv == SlotTypes /\ AllServe /\ Halfway /\ wrong = FALSE

LEMMA SetSlot ==
  ASSUME NEW S, NEW f \in [S -> Slot], NEW s \in S, NEW x \in Int
  PROVE  /\ [f EXCEPT ![s].remain = x, ![s].callback = TRUE] \in [S -> Slot]
         /\ [f EXCEPT ![s].remain = x] \in [S -> Slot]
         /\ [f EXCEPT ![s].callback = FALSE] \in [S -> Slot]
  BY DEF Slot

LEMMA CountDown ==
  ASSUME NEW r \in Slot, NEW x \in Int, NEW y \in {0, 1}
  PROVE  [r EXCEPT !.remain = x, !.is_used = y] \in Slot
  BY DEF Slot

LEMMA Older ==
  ASSUME NEW r \in [asked : Nat, age : Nat], NEW x \in Nat
  PROVE  [r EXCEPT !.age = x] \in [asked : Nat, age : Nat]
  OBVIOUS

LEMMA TimerInitInv == ASSUME TimerInit PROVE TimerInv
<1>1. SlotTypes
  BY DEF TimerInit, SlotTypes, Slot
<1>2. AllServe
  BY DEF TimerInit, AllServe, Serves, Used
<1>3. Halfway /\ wrong = FALSE
  BY DEF TimerInit, Halfway
<1> QED
  BY <1>1, <1>2, <1>3 DEF TimerInv

LEMMA CallInv ==
  ASSUME TimerInv, get_anytimer_pos \/ anytimer_destroy
  PROVE  TimerInv'
<1>1. slot' \in TimerSlots /\ UNCHANGED <<timer_libs, client, wrong>>
  BY DEF get_anytimer_pos, anytimer_destroy
<1>2. SlotTypes'
  BY <1>1 DEF TimerInv, SlotTypes
<1>3. timerpc = "idle" /\ timerpc' \in {"fields", "remain"}
  BY DEF get_anytimer_pos, anytimer_destroy, TimerGoes
<1>4. AllServe'
  BY <1>1, <1>3 DEF TimerInv, AllServe, Serves, Used, Removing
<1>5. Halfway'
  <2>1. CASE get_anytimer_pos
    <3>1. timerpc' = "fields" /\ seconds' \in Nat \ {0} /\ ~Used(slot')
      BY <2>1, TimerAssumption DEF get_anytimer_pos, TimerGoes
    <3> QED
      BY <1>1, <3>1 DEF Halfway, Used
  <2>2. CASE anytimer_destroy
    BY <2>2 DEF anytimer_destroy, TimerGoes, Halfway
  <2> QED
    BY <2>1, <2>2
<1> QED
  BY <1>1, <1>2, <1>4, <1>5 DEF TimerInv

LEMMA SetFieldsInv == ASSUME TimerInv, SetFields PROVE TimerInv'
<1> USE DEF SetFields, TimerGoes
<1>0. slot \in TimerSlots /\ seconds \in Nat \ {0}
  BY DEF TimerInv, SlotTypes, Halfway
<1>1. SlotTypes'
  <2>1. seconds \in Int /\ timer_libs \in [TimerSlots -> Slot]
    BY <1>0 DEF TimerInv, SlotTypes
  <2>2. timer_libs' \in [TimerSlots -> Slot]
    BY <1>0, <2>1, SetSlot, Zenon
  <2> QED
    BY <1>0, <2>2 DEF TimerInv, SlotTypes
<1>2. /\ \A s \in TimerSlots : s # slot => timer_libs'[s] = timer_libs[s]
      /\ timer_libs'[slot].is_used = timer_libs[slot].is_used
      /\ timer_libs'[slot].remain = seconds
      /\ timer_libs'[slot].callback
  BY <1>0 DEF TimerInv, SlotTypes, Slot
<1>3. ~Used(slot)
  BY DEF TimerInv, Halfway
<1>4. AllServe'
  BY <1>0, <1>2, <1>3 DEF TimerInv, AllServe, Serves, Used, Removing
<1>5. Halfway'
  BY <1>0, <1>2, <1>3 DEF Halfway, Used
<1> QED
  BY <1>1, <1>4, <1>5 DEF TimerInv

LEMMA SetUsedInv == ASSUME TimerInv, SetUsed PROVE TimerInv'
<1> USE DEF SetUsed, TimerGoes
<1>0. slot \in TimerSlots /\ seconds \in Nat \ {0}
  BY DEF TimerInv, SlotTypes, Halfway
<1>1. SlotTypes'
  BY <1>0 DEF TimerInv, SlotTypes, Slot
<1>2. /\ \A s \in TimerSlots : s # slot => timer_libs'[s] = timer_libs[s] /\ client'[s] = client[s]
      /\ timer_libs'[slot].is_used = 1
      /\ timer_libs'[slot].remain = timer_libs[slot].remain
      /\ timer_libs'[slot].callback = timer_libs[slot].callback
      /\ client'[slot].asked = seconds /\ client'[slot].age = 0
  BY <1>0 DEF TimerInv, SlotTypes, Slot
<1>3. timer_libs[slot].remain = seconds /\ timer_libs[slot].callback
  BY DEF TimerInv, Halfway
<1>4. Serves(slot)'
  BY <1>0, <1>2, <1>3 DEF Serves, Used
<1>5. AllServe'
  BY <1>0, <1>2, <1>4 DEF TimerInv, AllServe, Serves, Used, Removing
<1> QED
  BY <1>1, <1>5 DEF TimerInv, Halfway

LEMMA ClearInv == ASSUME TimerInv, ClearRemain \/ ClearCallback PROVE TimerInv'
<1> USE DEF ClearRemain, ClearCallback, TimerGoes
<1>0. slot \in TimerSlots
  BY DEF TimerInv, SlotTypes
<1>1. SlotTypes'
  <2>1. 0 \in Int /\ timer_libs \in [TimerSlots -> Slot]
    BY DEF TimerInv, SlotTypes
  <2>2. CASE ClearRemain
    BY <1>0, <2>1, <2>2, SetSlot, Zenon DEF TimerInv, SlotTypes
  <2>3. CASE ClearCallback
    BY <1>0, <2>1, <2>3, SetSlot, Zenon DEF TimerInv, SlotTypes
  <2> QED
    BY <2>2, <2>3
<1>2. /\ \A s \in TimerSlots : s # slot => timer_libs'[s] = timer_libs[s]
      /\ timerpc' = "is_used" => ~timer_libs'[slot].callback
  BY <1>0 DEF TimerInv, SlotTypes, Slot
<1>4. AllServe'
  BY <1>0, <1>2 DEF TimerInv, AllServe, Serves, Used, Removing
<1>5. Halfway'
  BY <1>0, <1>2 DEF Halfway
<1> QED
  BY <1>1, <1>4, <1>5 DEF TimerInv

LEMMA ClearUsedInv == ASSUME TimerInv, ClearUsed PROVE TimerInv'
<1> USE DEF ClearUsed, TimerGoes
<1>0. slot \in TimerSlots
  BY DEF TimerInv, SlotTypes
<1>1. SlotTypes'
  BY <1>0 DEF TimerInv, SlotTypes, Slot
<1>2. /\ \A s \in TimerSlots : s # slot => timer_libs'[s] = timer_libs[s] /\ client'[s] = client[s]
      /\ timer_libs'[slot].is_used = 0 /\ client'[slot].asked = 0
  BY <1>0 DEF TimerInv, SlotTypes, Slot
<1>4. AllServe'
  BY <1>0, <1>2 DEF TimerInv, AllServe, Serves, Used, Removing
<1> QED
  BY <1>1, <1>4 DEF TimerInv, Halfway

LEMMA AlarmInv == ASSUME TimerInv, alarm_handler PROVE TimerInv'
<1>0. UNCHANGED <<timerpc, slot, seconds>>
  BY DEF alarm_handler
<1>1. SlotTypes'
  <2>1. ASSUME NEW s \in TimerSlots PROVE timer_libs'[s] \in Slot
    <3>1. timer_libs[s] \in Slot /\ timer_libs[s].remain - 1 \in Int
      BY DEF TimerInv, SlotTypes, Slot
    <3> QED
      BY <3>1, CountDown DEF alarm_handler
  <2>2. ASSUME NEW s \in TimerSlots PROVE client'[s] \in [asked : Nat, age : Nat]
    <3>1. client[s] \in [asked : Nat, age : Nat] /\ client[s].age \in Nat /\ client[s].age + 1 \in Nat
      BY DEF TimerInv, SlotTypes
    <3> QED
      BY <3>1, Older DEF alarm_handler
  <2>3. timer_libs' = [s \in TimerSlots |-> timer_libs'[s]] /\ client' = [s \in TimerSlots |-> client'[s]]
    BY DEF alarm_handler
  <2> QED
    BY <1>0, <2>1, <2>2, <2>3 DEF TimerInv, SlotTypes
<1>2. \A s \in TimerSlots : timer_libs'[s].callback = timer_libs[s].callback
  BY DEF alarm_handler, TimerInv, SlotTypes, Slot
<1>3. \A s \in TimerSlots :
        ~Used(s) => timer_libs'[s] = timer_libs[s]
  BY DEF alarm_handler
<1>4. \A s \in TimerSlots :
        Used(s) => /\ timer_libs'[s].remain = timer_libs[s].remain - 1
                   /\ timer_libs'[s].is_used = IF timer_libs[s].remain <= 1 THEN 0 ELSE 1
  BY DEF alarm_handler, TimerInv, SlotTypes, Slot, DueNow
<1>5. \A s \in TimerSlots :
        IF Used(s) /\ timer_libs[s].remain <= 1 /\ timer_libs[s].callback
        THEN client'[s].asked = 0
        ELSE /\ client'[s].asked = client[s].asked
             /\ client'[s].age = IF client[s].age < client[s].asked THEN client[s].age + 1 ELSE client[s].age
  BY DEF alarm_handler, TimerInv, SlotTypes, Slot, DueNow
<1>6. \A s \in TimerSlots : client[s].asked \in Nat /\ client[s].age \in Nat /\ timer_libs[s].remain \in Int
  BY DEF TimerInv, SlotTypes, Slot
<1>7. AllServe'
  <2> SUFFICES ASSUME NEW s \in TimerSlots, ~Removing(s) PROVE Serves(s)'
    BY <1>0 DEF AllServe, Removing
  <2>1. Serves(s)
    BY DEF TimerInv, AllServe
  <2>2. CASE Used(s) /\ timer_libs[s].remain <= 1
    BY <1>4, <1>5, <2>1, <2>2 DEF Serves, Used
  <2>3. CASE Used(s) /\ ~(timer_libs[s].remain <= 1)
    BY <1>2, <1>4, <1>5, <1>6, <2>1, <2>3 DEF Serves, Used
  <2>4. CASE ~Used(s)
    BY <1>3, <1>5, <2>1, <2>4 DEF Serves, Used
  <2> QED
    BY <2>2, <2>3, <2>4
<1>8. Halfway'
  BY <1>0, <1>2, <1>3 DEF TimerInv, SlotTypes, Halfway, Used
<1>9. wrong' = FALSE
  <2> SUFFICES ASSUME NEW s \in DueNow, timer_libs[s].callback PROVE ~AtWrongTime(s)
    BY DEF alarm_handler, TimerInv
  <2>1. s \in TimerSlots /\ Used(s) /\ timer_libs[s].remain <= 1
    BY DEF DueNow
  <2>2. CASE Removing(s)
    BY <2>2 DEF Removing, AtWrongTime, TimerInv, Halfway
  <2>3. CASE ~Removing(s)
    <3>1. Serves(s)
      BY <2>1, <2>3 DEF TimerInv, AllServe
    <3>2. client[s].age + 1 = client[s].asked
      BY <1>6, <2>1, <3>1 DEF Serves
    <3> QED
      BY <3>2 DEF AtWrongTime
  <2> QED
    BY <2>2, <2>3
<1> QED
  BY <1>1, <1>7, <1>8, <1>9 DEF TimerInv

(* Wherever the tick interrupts anytimer_init and anytimer_destroy, every  *)
(* callback runs after exactly the seconds asked for; for every number of  *)
(* slots.                                                                  *)
THEOREM TimersAreOnTime == TimerSpec => []TimersRingInTime
<1>1. TimerInv /\ [TimerNext]_timerVars => TimerInv'
  <2>1. ASSUME TimerInv, UNCHANGED timerVars PROVE TimerInv'
    BY <2>1, Zenon DEF timerVars, TimerInv, SlotTypes, AllServe, Serves, Used, Removing, Halfway
  <2> QED
    BY <2>1, CallInv, SetFieldsInv, SetUsedInv, ClearInv, ClearUsedInv, AlarmInv DEF TimerNext
<1>2. TimerInv => TimersRingInTime
  <2> SUFFICES ASSUME TimerInv, timerpc = "idle", NEW s \in TimerSlots
               PROVE  Used(s) <=> client[s].asked > 0
    BY DEF TimerInv, TimersRingInTime
  <2>1. Serves(s)
    BY DEF TimerInv, AllServe, Removing
  <2>2. client[s].asked \in Nat /\ client[s].age \in Nat
    BY DEF TimerInv, SlotTypes
  <2> QED
    BY <2>1, <2>2 DEF Serves
<1> QED
  BY TimerInitInv, <1>1, <1>2, PTL DEF TimerSpec

-----------------------------------------------------------------------------
(* The bucket library with threads.                                        *)
BucketStates == {"none", "raw", "live", "freed"}
Bucket == [state : BucketStates, token : Nat, held : BOOLEAN, fills : Nat, fetched : Nat, returned : Nat]

(* The books of one bucket. *)
Balanced(r) ==
  /\ r.token <= burst
  /\ r.fills < MaxFills => r.token + r.fetched <= cps * r.fills + r.returned

TbfInv ==
  /\ heap \in [Buckets -> Bucket]
  /\ \A b \in Buckets : Balanced(heap[b])
  /\ want \in [TbfClients -> Nat]

LEMMA BucketTypes ==
  ASSUME NEW r \in Bucket
  PROVE  r.token \in Nat /\ r.fills \in Nat /\ r.fetched \in Nat /\ r.returned \in Nat
  BY DEF Bucket

(* A lock, an unlock, the setting of the fields and free leave the books   *)
(* alone.                                                                  *)
LEMMA HeldKeeps ==
  ASSUME NEW r \in Bucket, Balanced(r), NEW h \in BOOLEAN
  PROVE  [r EXCEPT !.held = h] \in Bucket /\ Balanced([r EXCEPT !.held = h])
  BY DEF Bucket, Balanced

LEMMA StateKeeps ==
  ASSUME NEW r \in Bucket, Balanced(r), NEW x \in BucketStates
  PROVE  [r EXCEPT !.state = x] \in Bucket /\ Balanced([r EXCEPT !.state = x])
  BY DEF Bucket, Balanced

LEMMA FetchKeeps ==
  ASSUME NEW r \in Bucket, Balanced(r), NEW w \in Nat, NEW f, f = getmin(r.token, w), NEW q,
         q = [r EXCEPT !.token = @ - f, !.fetched = @ + f, !.held = FALSE]
  PROVE  q \in Bucket /\ Balanced(q)
<1>1. f \in Nat /\ f <= r.token /\ r.token - f \in Nat /\ r.fetched + f \in Nat
  BY BucketTypes DEF getmin
<1>2. /\ q.token = r.token - f /\ q.fetched = r.fetched + f
      /\ q.fills = r.fills /\ q.returned = r.returned
  BY DEF Bucket
<1>3. q \in Bucket
  BY <1>1 DEF Bucket
<1>4. cps * r.fills \in Nat
  BY TbfAssumption, BucketTypes
<1>5. Balanced(q)
  BY <1>1, <1>2, <1>4, BucketTypes, TbfAssumption DEF Balanced
<1> QED
  BY <1>3, <1>5

LEMMA ReturnKeeps ==
  ASSUME NEW r \in Bucket, Balanced(r), NEW w \in Nat, NEW t, t = getmin(r.token + w, burst), NEW q,
         q = [r EXCEPT !.token = t, !.returned = @ + w, !.held = FALSE]
  PROVE  q \in Bucket /\ Balanced(q)
<1>1. t \in Nat /\ t <= burst /\ t <= r.token + w /\ r.returned + w \in Nat
  BY BucketTypes, TbfAssumption DEF getmin
<1>2. /\ q.token = t /\ q.fetched = r.fetched
      /\ q.fills = r.fills /\ q.returned = r.returned + w
  BY DEF Bucket
<1>3. q \in Bucket
  BY <1>1 DEF Bucket
<1>4. cps * r.fills \in Nat
  BY TbfAssumption, BucketTypes
<1>5. Balanced(q)
  BY <1>1, <1>2, <1>4, BucketTypes, TbfAssumption DEF Balanced
<1> QED
  BY <1>3, <1>5

LEMMA FillKeeps ==
  ASSUME NEW r \in Bucket, Balanced(r), NEW t, t = getmin(r.token + cps, burst), NEW q,
         q = [r EXCEPT !.token = t, !.fills = getmin(@ + 1, MaxFills), !.held = FALSE]
  PROVE  q \in Bucket /\ Balanced(q)
<1> DEFINE f == getmin(r.fills + 1, MaxFills)
<1>1. t \in Nat /\ t <= burst /\ t <= r.token + cps
  BY BucketTypes, TbfAssumption DEF getmin
<1>2. f \in Nat /\ (f < MaxFills => f = r.fills + 1 /\ r.fills < MaxFills)
  BY BucketTypes, TbfAssumption DEF getmin
<1> HIDE DEF f
<1>3. /\ q.token = t /\ q.fetched = r.fetched
      /\ q.fills = f /\ q.returned = r.returned
  BY DEF Bucket, f
<1>4. q \in Bucket
  BY <1>1, <1>2 DEF Bucket, f
<1>5. cps * r.fills \in Nat /\ cps * (r.fills + 1) = cps * r.fills + cps
  BY TbfAssumption, BucketTypes
<1>6. f < MaxFills => cps * f = cps * r.fills + cps
  BY <1>2, <1>5
<1>7. Balanced(q)
  <2>1. f < MaxFills => q.token + q.fetched <= cps * r.fills + cps + q.returned
    BY <1>1, <1>2, <1>3, <1>5, BucketTypes, TbfAssumption DEF Balanced
  <2> QED
    BY <1>1, <1>3, <1>6, <2>1 DEF Balanced
<1> QED
  BY <1>4, <1>7

(* One bucket changes, the others do not. *)
LEMMA OneBucket ==
  ASSUME TbfInv, NEW b, NEW q, heap' = [heap EXCEPT ![b] = q], UNCHANGED want,
         b \in Buckets => q \in Bucket /\ Balanced(q)
  PROVE  TbfInv'
<1>1. \A a \in Buckets : heap'[a] \in Bucket /\ Balanced(heap'[a])
  BY DEF TbfInv
<1>2. heap' = [a \in Buckets |-> heap'[a]]
  BY DEF TbfInv
<1> QED
  BY <1>1, <1>2 DEF TbfInv, Balanced

LEMMA LockInv ==
  ASSUME TbfInv, NEW b, NEW h \in BOOLEAN, heap' = [heap EXCEPT ![b].held = h], UNCHANGED want
  PROVE  TbfInv'
  BY OneBucket, HeldKeeps DEF TbfInv

LEMMA StateInv ==
  ASSUME TbfInv, NEW b, NEW x \in BucketStates, heap' = [heap EXCEPT ![b].state = x], UNCHANGED want
  PROVE  TbfInv'
  BY OneBucket, StateKeeps DEF TbfInv

LEMMA ClientInv == ASSUME TbfInv, NEW c \in TbfClients, Client(c) PROVE TbfInv'
<1>0. want[c] \in Nat
  BY DEF TbfInv
<1>1. CASE LockBucket(c, "f_lock", "test") \/ LockBucket(c, "relock", "test") \/ LockBucket(c, "r_lock", "give")
  BY <1>1, LockInv DEF LockBucket, callVars
<1>2. CASE WaitToken(c)
  BY <1>2, LockInv DEF WaitToken, callVars
<1>3. CASE FetchToken(c)
  <2> DEFINE f == getmin(heap[mine[c]].token, want[c])
             q == [heap[mine[c]] EXCEPT !.token = @ - f, !.fetched = @ + f, !.held = FALSE]
  <2>1. heap' = [heap EXCEPT ![mine[c]] = q] /\ UNCHANGED want
    BY <1>3, Zenon DEF FetchToken, callVars
  <2>2. ASSUME mine[c] \in Buckets PROVE q \in Bucket /\ Balanced(q)
    <3>1. heap[mine[c]] \in Bucket /\ Balanced(heap[mine[c]])
      BY <2>2 DEF TbfInv
    <3> QED
      BY <1>0, <3>1, FetchKeeps
  <2> QED
    BY <2>1, <2>2, OneBucket
<1>4. CASE AddReturned(c)
  <2> DEFINE t == Filled(mine[c], want[c])
             q == [heap[mine[c]] EXCEPT !.token = t, !.returned = @ + want[c], !.held = FALSE]
  <2>1. heap' = [heap EXCEPT ![mine[c]] = q] /\ UNCHANGED want
    BY <1>4, Zenon DEF AddReturned, callVars
  <2>2. ASSUME mine[c] \in Buckets PROVE q \in Bucket /\ Balanced(q)
    <3>1. heap[mine[c]] \in Bucket /\ Balanced(heap[mine[c]]) /\ t = getmin(heap[mine[c]].token + want[c], burst)
      BY <2>2 DEF TbfInv, Filled
    <3> QED
      BY <1>0, <3>1, ReturnKeeps
  <2> QED
    BY <2>1, <2>2, OneBucket
<1>5. CASE BroadcastReturned(c) \/ ClearEntry(c)
  BY <1>5 DEF BroadcastReturned, ClearEntry, callVars, TbfInv, Balanced
<1>6. CASE InitFields(c)
  BY <1>6, StateInv DEF BucketStates, InitFields, callVars
<1> QED
  BY <1>1, <1>2, <1>3, <1>4, <1>5, <1>6 DEF Client

LEMMA JobInv == ASSUME TbfInv, thr_fun PROVE TbfInv'
<1>1. CASE UNCHANGED <<heap, want>>
  BY <1>1 DEF TbfInv, Balanced
<1>2. CASE FillLock
  BY <1>1, <1>2, LockInv DEF FillLock, Undefined, callVars
<1>3. CASE Fill
  <2> DEFINE t == Filled(locked, cps)
             q == [heap[locked] EXCEPT !.token = t, !.fills = getmin(@ + 1, MaxFills), !.held = FALSE]
  <2>1. UNCHANGED <<heap, want>> \/ (heap' = [heap EXCEPT ![locked] = q] /\ UNCHANGED want)
    BY <1>3, Zenon DEF Fill, Undefined, callVars
  <2>2. ASSUME locked \in Buckets PROVE q \in Bucket /\ Balanced(q)
    <3>1. heap[locked] \in Bucket /\ Balanced(heap[locked]) /\ t = getmin(heap[locked].token + cps, burst)
      BY <2>2 DEF TbfInv, Filled
    <3> QED
      BY <3>1, FillKeeps
  <2> QED
    BY <1>1, <2>1, <2>2, OneBucket
<1>4. CASE LockJob \/ CheckEntry \/ FillBroadcast \/ UnlockJob
  BY <1>1, <1>4 DEF LockJob, CheckEntry, FillBroadcast, UnlockJob, Undefined, callVars
<1> QED
  BY <1>2, <1>3, <1>4 DEF thr_fun

LEMMA CallsInv ==
  ASSUME TbfInv, NEW c \in TbfClients,
         tbf_init(c) \/ Begin(c, "f_lock") \/ Begin(c, "r_lock") \/ tbf_destroy(c) \/ tbf_destroy_all(c)
  PROVE  TbfInv'
<1>1. CASE tbf_init(c)
  BY <1>1, StateInv DEF BucketStates, tbf_init
<1>2. CASE Begin(c, "f_lock") \/ Begin(c, "r_lock")
  <2>1. want' \in [TbfClients -> Nat] /\ heap' = heap
    BY <1>2, TbfAssumption DEF Begin, TbfInv
  <2> QED
    BY <2>1 DEF TbfInv, Balanced
<1>3. CASE tbf_destroy(c)
  BY <1>3, StateInv DEF BucketStates, tbf_destroy
<1>4. CASE tbf_destroy_all(c)
  <2>1. "freed" \in BucketStates
    BY DEF BucketStates
  <2>2. ASSUME NEW b \in Buckets PROVE heap'[b] \in Bucket /\ Balanced(heap'[b])
    BY <1>4, <2>1, StateKeeps DEF tbf_destroy_all, TbfInv
  <2>3. heap' = [b \in Buckets |-> heap'[b]] /\ want' = want
    BY <1>4 DEF tbf_destroy_all, callVars
  <2> QED
    BY <2>2, <2>3 DEF TbfInv, Balanced
<1> QED
  BY <1>1, <1>2, <1>3, <1>4

(* Whatever the threads of the bucket library do, and also when one meets  *)
(* a destroyed bucket, tokens come from fills and returns only; for any    *)
(* number of threads, buckets, rates and bursts.                           *)
THEOREM BooksBalance == TbfSpec => []TokensAccounted
<1>1. TbfInit => TbfInv
  <2> SUFFICES ASSUME TbfInit PROVE TbfInv
    OBVIOUS
  <2>1. Unborn \in Bucket /\ Balanced(Unborn)
    <3>1. cps * 0 = 0
      BY TbfAssumption
    <3>2. Unborn \in Bucket
      BY DEF Unborn, Bucket, BucketStates
    <3> QED
      BY <3>1, <3>2, TbfAssumption DEF Unborn, Balanced
  <2>2. want \in [TbfClients -> Nat]
    BY DEF TbfInit
  <2>3. heap = [b \in Buckets |-> Unborn]
    BY DEF TbfInit
  <2> QED
    BY <2>1, <2>2, <2>3 DEF TbfInv
<1>2. TbfInv /\ [TbfNext]_tbfVars => TbfInv'
  <2>1. ASSUME TbfInv, UNCHANGED tbfVars PROVE TbfInv'
    BY <2>1 DEF tbfVars, TbfInv, Balanced
  <2> QED
    BY <2>1, ClientInv, JobInv, CallsInv DEF TbfNext
<1>3. TbfInv => TokensAccounted
  BY BucketTypes, TbfAssumption DEF TbfInv, Balanced, TokensAccounted
<1> QED
  BY <1>1, <1>2, <1>3, PTL DEF TbfSpec
=============================================================================
