---------------------------- MODULE MCAlarmPool -----------------------------
(* An instance of AlarmPool for TLC. *)
EXTENDS AlarmPool
CONSTANTS w1, w2
TwoWorkers == {w1, w2}
BothAdders == {Reactor, Handler}
OneTask == <<1>>
=============================================================================
