----------------------------- MODULE SignalLines -----------------------------
(***************************************************************************)
(* The signal exercises: a program prints lines of stars while SIGINT and  *)
(* SIGRTMIN arrive, whose handlers print a mark.  The signals are blocked  *)
(* while a line is printed; two programs then unblock them, two wait for   *)
(* one with sigsuspend.  A pending SIGINT is one, however often it was     *)
(* sent; real-time signals queue.                                          *)
(***************************************************************************)
EXTENDS Integers, FiniteSets

CONSTANTS
  Columns, Rows,    \* stars of a line, lines
  MaxSends,         \* bound: signals sent
  SignalPrograms    \* the programs considered

VARIABLES
  prog,             \* the program that runs
  sigpc,            \* where its main flow is
  column, row,      \* j and i
  mask,             \* signals blocked
  sigint, sigrt,    \* SIGINT is pending; SIGRTMINs queued
  sends,            \* signals sent
  marks,            \* handlers run since the line ended
  mixed             \* a mark was printed inside a line

signalVars == <<prog, sigpc, column, row, mask, sigint, sigrt, sends, marks, mixed>>
-----------------------------------------------------------------------------
(* The signals handled and blocked, and whether the program waits between  *)
(* two lines.                                                              *)
sigmask == [handles |-> {"INT"}, waits |-> FALSE]
rt_signal == [handles |-> {"INT", "RT"}, waits |-> FALSE]
sigsuspend_10 == [handles |-> {"INT", "RT"}, waits |-> TRUE]
sigsuspend_12 == [handles |-> {"INT", "RT"}, waits |-> TRUE]
-----------------------------------------------------------------------------
SignalInit ==
  /\ prog \in SignalPrograms
  /\ sigpc = "begin" /\ column = 0 /\ row = 0
  /\ mask = {} /\ sigint = FALSE /\ sigrt = 0 /\ sends = 0 /\ marks = 0 /\ mixed = FALSE

Deliverable ==
  (IF sigint /\ "INT" \notin mask THEN {"INT"} ELSE {}) \cup (IF sigrt > 0 /\ "RT" \notin mask THEN {"RT"} ELSE {})

Send(sig) ==
  /\ sends < MaxSends /\ sigpc # "ended" /\ sig \in prog.handles
  /\ sends' = sends + 1
  /\ sigint' = (sigint \/ sig = "INT")
  /\ sigrt' = IF sig = "RT" THEN sigrt + 1 ELSE sigrt
  /\ UNCHANGED <<prog, sigpc, column, row, mask, marks, mixed>>

(* The signals in S are taken from those pending and their handlers run.   *)
Handled(S) ==
  /\ sigint' = (sigint /\ "INT" \notin S)
  /\ sigrt' = IF "RT" \in S THEN sigrt - 1 ELSE sigrt
  /\ marks' = marks + Cardinality(S)
  /\ mixed' = (mixed \/ column > 0)

(* A signal that is not blocked is handled between any two steps. *)
HandleSignal ==
  /\ sigpc \notin {"suspend", "ended"}
  /\ \E s \in Deliverable : Handled({s})
  /\ UNCHANGED <<prog, sigpc, column, row, mask, sends>>

(* sigprocmask at the start of a line; the sigsuspend programs come here   *)
(* with the mask already set, except the first time.                       *)
StartLine ==
  /\ sigpc = "begin" /\ row < Rows
  /\ mask' = prog.handles
  /\ sigpc' = "line" /\ marks' = 0
  /\ UNCHANGED <<prog, column, row, sigint, sigrt, sends, mixed>>

Star ==
  /\ sigpc = "line" /\ column < Columns
  /\ column' = column + 1
  /\ UNCHANGED <<prog, sigpc, row, mask, sigint, sigrt, sends, marks, mixed>>

(* The end of a line: unblock, and what is pending is handled before       *)
(* sigprocmask returns; or on to sigsuspend.                               *)
EndLine ==
  /\ sigpc = "line" /\ column = Columns
  /\ column' = 0 /\ row' = row + 1
  /\ IF prog.waits THEN sigpc' = "suspend" /\ UNCHANGED mask
                   ELSE sigpc' = "unmasked" /\ mask' = {}
  /\ UNCHANGED <<prog, sigint, sigrt, sends, marks, mixed>>
Unmasked ==
  /\ sigpc = "unmasked" /\ Deliverable = {}
  /\ sigpc' = IF row = Rows THEN "ended" ELSE "begin"
  /\ UNCHANGED <<prog, column, row, mask, sigint, sigrt, sends, marks, mixed>>

(* sigsuspend: the old mask, a wait for a signal and the new mask again in *)
(* one step; of several pending signals some are handled.                  *)
SuspendInTwoSteps ==
  /\ sigpc = "suspend"
  /\ IF mask # {} THEN mask' = {} /\ UNCHANGED <<sigpc, sigint, sigrt, marks, mixed>>
     ELSE /\ \E s \in Deliverable : Handled({s})
          /\ sigpc' \in {"begin", "suspend"} /\ UNCHANGED mask
  /\ UNCHANGED <<prog, column, row, sends>>
sigsuspend ==
  /\ sigpc = "suspend"
  /\ \E S \in SUBSET {s \in {"INT", "RT"} : (s = "INT" /\ sigint) \/ (s = "RT" /\ sigrt > 0)} :
       S # {} /\ Handled(S)
  /\ sigpc' = IF row = Rows THEN "ended" ELSE "begin"
  /\ UNCHANGED <<prog, column, row, mask, sends>>

SignalNext ==
  \/ \E sig \in {"INT", "RT"} : Send(sig)
  \/ HandleSignal \/ StartLine \/ Star \/ EndLine \/ Unmasked \/ sigsuspend

SignalSpec == SignalInit /\ [][SignalNext]_signalVars
-----------------------------------------------------------------------------
(* Lines are whole: no mark is printed inside one.  And a program that     *)
(* waits in sigsuspend has answered no signal since its line ended: no     *)
(* signal is handled just before the wait and then waited for.             *)
LinesAreWhole ==
  /\ ~mixed
  /\ sigpc = "suspend" => marks = 0
=============================================================================
