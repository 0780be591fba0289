---------------------------- MODULE TokenBucket -----------------------------
(***************************************************************************)
(* The packet limiter (token_bucket.c).  Tokens are counted in thousandths *)
(* so that elapsed_ms * tb_rate / 1000.0 is exact; the rounding of double  *)
(* is left out.  Time is read from gettimeofday, which an administrator or *)
(* NTP may set: wall time is real time plus a skew that can change.        *)
(*                                                                         *)
(* tb_mutex makes a call one step.  A window of observation opens at an    *)
(* arbitrary call, so that the rate is bounded over every interval.        *)
(***************************************************************************)
EXTENDS Integers

CONSTANTS
  Capacity, Rate,   \* the arguments of token_bucket_init
  Counts,           \* the counts token_bucket_consume is called with
  Delays,           \* possible times between two calls, in ms
  Skews,            \* possible differences between wall and real time, in ms
  MaxReal,          \* bound: real time in a behaviour, in ms
  MaxGranted        \* bound: tokens granted in one window

ASSUME BucketAssumption ==
  /\ Capacity \in Nat /\ Rate \in Nat
  /\ Counts \subseteq Nat /\ Delays \subseteq Nat /\ Skews \subseteq Int
  /\ MaxReal \in Nat /\ MaxGranted \in Nat

VARIABLES
  tb_tokens,         \* in thousandths
  tb_last_time_ms,
  real, skew,        \* real time; get_time_ms() is real + skew
  allowed, asked,    \* result and count of the last call
  gap,               \* history: real time between the last two calls
  lastCall,          \* history: real time of the last call
  setBack,           \* history: the wall clock has been set back
  opened, granted    \* the window: wall time it opened at, tokens granted since

bucketVars == <<tb_tokens, tb_last_time_ms, real, skew, allowed, asked, gap, lastCall,
          setBack, opened, granted>>

now == real + skew
Lesser(a, b) == IF a < b THEN a ELSE b

(* token_bucket_init: the bucket starts full. *)
BucketInit ==
  /\ tb_tokens = 1000 * Capacity
  /\ real = 0 /\ skew \in Skews
  /\ tb_last_time_ms = now
  /\ allowed = 1 /\ asked = 0 /\ gap = 0 /\ lastCall = 0 /\ setBack = FALSE
  /\ opened = now /\ granted = 0

(* The tokens after the refill, never more than the bucket holds. *)
RefilledUncapped(elapsed_ms) == tb_tokens + elapsed_ms * Rate
Refilled(elapsed_ms) ==
  IF elapsed_ms > 0 THEN Lesser(tb_tokens + elapsed_ms * Rate, 1000 * Capacity)
                    ELSE tb_tokens

(* tb_tokens >= count *)
MoreThan(tokens, count) == tokens > 1000 * count
Enough(tokens, count) == tokens >= 1000 * count

token_bucket_consume(count) ==
  LET tokens == Refilled(now - tb_last_time_ms) IN
  /\ tb_last_time_ms' = IF now > tb_last_time_ms THEN now ELSE tb_last_time_ms
  /\ allowed' = IF Enough(tokens, count) THEN 1 ELSE 0
  /\ tb_tokens' = tokens - 1000 * count * allowed'
  /\ granted' = granted + count * allowed'
  /\ asked' = count /\ gap' = real - lastCall /\ lastCall' = real
  /\ UNCHANGED <<real, skew, setBack, opened>>

Wait ==
  /\ \E d \in Delays : real + d <= MaxReal /\ real' = real + d
  /\ UNCHANGED <<tb_tokens, tb_last_time_ms, skew, allowed, asked, gap, lastCall, setBack, opened, granted>>

(* settimeofday, or a step of NTP *)
SetClock ==
  /\ \E s \in Skews : skew' = s
  /\ setBack' = (setBack \/ skew' < skew)
  /\ UNCHANGED <<tb_tokens, tb_last_time_ms, real, allowed, asked, gap, lastCall, opened, granted>>

OpenWindow ==
  /\ opened' = tb_last_time_ms
  /\ granted' = 0
  /\ UNCHANGED <<tb_tokens, tb_last_time_ms, real, skew, allowed, asked, gap, lastCall, setBack>>

BucketNext ==
  \/ \E count \in Counts : granted + count <= MaxGranted /\ token_bucket_consume(count)
  \/ Wait \/ SetClock \/ OpenWindow

BucketSpec == BucketInit /\ [][BucketNext]_bucketVars
-----------------------------------------------------------------------------
BucketTypeOK ==
  /\ tb_tokens \in 0 .. 1000 * Capacity
  /\ tb_last_time_ms \in Int /\ opened \in Int /\ opened <= tb_last_time_ms
  /\ real \in Nat /\ skew \in Int
  /\ allowed \in {0, 1} /\ asked \in Nat /\ granted \in Nat
  /\ gap \in Nat /\ lastCall \in Nat /\ setBack \in BOOLEAN

(* Over every interval no more passes than a full bucket plus what the     *)
(* rate yields in it, whatever is done to the clock; and what is left in   *)
(* the bucket is part of that allowance.                                   *)
RateBound ==
  1000 * granted + tb_tokens <= 1000 * Capacity + Rate * (tb_last_time_ms - opened)

(* A caller that waits long enough for its tokens to be generated is       *)
(* served, if the clock has never been set back.                           *)
ServedAtRate ==
  ~setBack /\ asked <= Capacity /\ gap * Rate >= 1000 * asked => allowed = 1
=============================================================================
