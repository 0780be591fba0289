------------------------------ MODULE AnyTimer -------------------------------
(***************************************************************************)
(* anytimer: several timers upon the one alarm of a process.  The main     *)
(* flow sets and removes timers; SIGALRM, once a second, interrupts it     *)
(* between any two assignments, counts every timer down and runs the       *)
(* callback of those that are due.  The callbacks only print.              *)
(***************************************************************************)
EXTENDS Integers

CONSTANTS
  ANYTIMERMAX,   \* slots
  Seconds        \* what timers are set to

ASSUME TimerAssumption == ANYTIMERMAX \in Nat /\ Seconds \subseteq Nat \ {0}

VARIABLES
  timer_libs,    \* the slots
  timerpc, slot, \* where the main flow is, and the slot it works on
  seconds,       \* the argument of anytimer_init
  client,        \* history per slot: what its client asked for, 0 when the
                 \* timer has rung or was removed, and the ticks since, as
                 \* long as they are fewer
  wrong          \* history: a callback has run at a wrong time

timerVars == <<timer_libs, timerpc, slot, seconds, client, wrong>>
-----------------------------------------------------------------------------
TimerSlots == 0 .. ANYTIMERMAX - 1

(* lib_init: every slot is free. *)
TimerInit ==
  /\ timer_libs = [i \in TimerSlots |-> [remain |-> 0, callback |-> FALSE, is_used |-> 0]]
  /\ timerpc = "idle" /\ slot = 0 /\ seconds = 0
  /\ client = [i \in TimerSlots |-> [asked |-> 0, age |-> 0]] /\ wrong = FALSE

TimerGoes(from, to) == timerpc = from /\ timerpc' = to
Used(i) == timer_libs[i].is_used = 1

(* anytimer_init: the first free slot, or -2 when there is none. *)
get_anytimer_pos ==
  /\ TimerGoes("idle", "fields")
  /\ \E i \in TimerSlots : ~Used(i) /\ (\A j \in 0 .. i - 1 : Used(j)) /\ slot' = i
  /\ seconds' \in Seconds
  /\ UNCHANGED <<timer_libs, client, wrong>>

SetFields ==
  /\ TimerGoes("fields", "used")
  /\ timer_libs' = [timer_libs EXCEPT ![slot].remain = seconds, ![slot].callback = TRUE]
  /\ UNCHANGED <<slot, seconds, client, wrong>>

SetUsed ==
  /\ TimerGoes("used", "idle")
  /\ timer_libs' = [timer_libs EXCEPT ![slot].is_used = 1]
  /\ client' = [client EXCEPT ![slot] = [asked |-> seconds, age |-> 0]]
  /\ UNCHANGED <<slot, seconds, wrong>>

(* anytimer_destroy of a slot in use, -2 for another: remain, callback and *)
(* is_used are cleared one after the other.                                *)
anytimer_destroy ==
  /\ TimerGoes("idle", "remain")
  /\ \E i \in TimerSlots : Used(i) /\ slot' = i
  /\ UNCHANGED <<timer_libs, seconds, client, wrong>>
ClearRemain ==
  /\ TimerGoes("remain", "callback")
  /\ timer_libs' = [timer_libs EXCEPT ![slot].remain = 0]
  /\ UNCHANGED <<slot, seconds, client, wrong>>
ClearCallback ==
  /\ TimerGoes("callback", "is_used")
  /\ timer_libs' = [timer_libs EXCEPT ![slot].callback = FALSE]
  /\ UNCHANGED <<slot, seconds, client, wrong>>
ClearUsed ==
  /\ TimerGoes("is_used", "idle")
  /\ timer_libs' = [timer_libs EXCEPT ![slot].is_used = 0]
  /\ client' = [client EXCEPT ![slot] = [asked |-> 0, age |-> 0]]
  /\ UNCHANGED <<slot, seconds, wrong>>

(* The timers that this tick brings to zero, with one second left or none. *)
DueLater == {i \in TimerSlots : Used(i) /\ timer_libs[i].remain <= 0}
DueNow == {i \in TimerSlots : Used(i) /\ timer_libs[i].remain <= 1}

(* A callback runs at a wrong time, except for a timer just being removed. *)
AtWrongTime(i) == client[i].age + 1 # client[i].asked /\ ~(timerpc = "callback" /\ slot = i)

alarm_handler ==
  /\ \E i \in TimerSlots : Used(i)
  /\ timer_libs' = [i \in TimerSlots |->
       IF ~Used(i) THEN timer_libs[i]
       ELSE [timer_libs[i] EXCEPT !.remain = @ - 1, !.is_used = IF i \in DueNow THEN 0 ELSE 1]]
  /\ client' = [i \in TimerSlots |->
       CASE i \in DueNow /\ timer_libs[i].callback -> [asked |-> 0, age |-> 0]
         [] OTHER -> [client[i] EXCEPT !.age = IF @ < client[i].asked THEN @ + 1 ELSE @]]
  /\ wrong' = (wrong \/ \E i \in DueNow : timer_libs[i].callback /\ AtWrongTime(i))
  /\ UNCHANGED <<timerpc, slot, seconds>>

TimerNext ==
  \/ get_anytimer_pos \/ SetFields \/ SetUsed
  \/ anytimer_destroy \/ ClearRemain \/ ClearCallback \/ ClearUsed
  \/ alarm_handler

TimerSpec == TimerInit /\ [][TimerNext]_timerVars
-----------------------------------------------------------------------------
(* Wherever SIGALRM interrupts the calls, a callback runs exactly after    *)
(* the seconds asked for, once, and never after anytimer_destroy returned; *)
(* between two calls the slots in use are the timers the client has set    *)
(* and neither seen ring nor removed.  The exception is a timer that is    *)
(* just being removed: between the assignments to remain and to callback   *)
(* a tick makes it ring early.                                             *)
TimersRingInTime ==
  /\ ~wrong
  /\ timerpc = "idle" => \A i \in TimerSlots : Used(i) <=> client[i].asked > 0
=============================================================================
