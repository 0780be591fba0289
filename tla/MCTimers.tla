------------------------------ MODULE MCTimers -------------------------------
(***************************************************************************)
(* What is driven by a clock or by signals, one of which runs: the         *)
(* gateway's token bucket, its alarm scheduler with the thread pool, the   *)
(* slow cats, anytimer, the programs that print lines between signals, and *)
(* the bucket library with threads.                                        *)
(***************************************************************************)
EXTENDS TokenBucket, AlarmPool, SlowCat, AnyTimer, SignalLines, TbfThreads

CONSTANTS c1, c2, w1, w2

VARIABLE running

clockVars == <<running, bucketVars, allVars, catVars, timerVars, signalVars, tbfVars>>

MCCounts == {1, 2}
MCDelays == {250, 499}
MCSkews == {-600, 0}
TwoClients == {c1, c2}
SomeSeconds == {1, 3}

(* Three periodic tasks for two slots. *)
TwoWorkers == {w1, w2}
BothAdders == {Reactor, Handler}
ThreeTasks == <<1, 2, 1>>

(* A burst of two reads in place of twenty, and a tick that is less than a *)
(* read: BUFSIZE is the CPS of these programs.                             *)
AllCats == {slowcat, re02alarm} \cup {[c EXCEPT !.BURST = 2 * BUFSIZE] : c \in {slowcat_token, sigitimer, tbf, tbf_2}}
FourPrograms == {sigmask, rt_signal, sigsuspend_10, sigsuspend_12}

ClockInit ==
  /\ running \in {"bucket", "alarm", "cat", "anytimer", "lines", "tbf"}
  /\ BucketInit /\ InitAlarm /\ CatInit /\ TimerInit /\ SignalInit /\ TbfInit
  /\ running # "bucket" => skew = 0
  /\ running # "cat" => cat = slowcat
  /\ running # "lines" => prog = sigmask

InBucket(A) == running = "bucket" /\ A /\ UNCHANGED <<running, allVars, catVars, timerVars, signalVars, tbfVars>>
InAlarm(A) == running = "alarm" /\ A /\ UNCHANGED <<running, bucketVars, catVars, timerVars, signalVars, tbfVars>>
InCat(A) == running = "cat" /\ A /\ UNCHANGED <<running, bucketVars, allVars, timerVars, signalVars, tbfVars>>
InTimer(A) == running = "anytimer" /\ A /\ UNCHANGED <<running, bucketVars, allVars, catVars, signalVars, tbfVars>>
InLines(A) == running = "lines" /\ A /\ UNCHANGED <<running, bucketVars, allVars, catVars, timerVars, tbfVars>>
InTbf(A) == running = "tbf" /\ A /\ UNCHANGED <<running, bucketVars, allVars, catVars, timerVars, signalVars>>

ClockNext ==
  \/ InBucket(BucketNext) \/ InAlarm(NextAlarm) \/ InCat(CatNext)
  \/ InTimer(TimerNext) \/ InLines(SignalNext) \/ InTbf(TbfNext)

(* A program that can run does, and its alarms go off.  Between two rounds *)
(* the filling thread sleeps for a second, in which a client that waits    *)
(* for a mutex gets it.                                                    *)
ClockSpec ==
  /\ ClockInit /\ [][ClockNext]_clockVars
  /\ WF_clockVars(InCat(mycat)) /\ WF_clockVars(InCat(sig_handler))
  /\ WF_clockVars(InTbf(~crashed /\ thr_fun)) /\ \A c \in TbfClients : SF_clockVars(InTbf(~crashed /\ Client(c)))
=============================================================================
