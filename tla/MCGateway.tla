------------------------------ MODULE MCGateway ------------------------------
(***************************************************************************)
(* Parts of the gateway that share no state, one of which runs: the shared *)
(* sensor table, the process pool, the exit sequence with the logger, and  *)
(* the start with its lock file, together with the other programs that     *)
(* take one.                                                               *)
(***************************************************************************)
EXTENDS SharedTable, ProcessPool, GatewayExit, Daemons

CONSTANTS w1, w2, r1, c1, c2

VARIABLE running

gateVars == <<running, tableVars, procVars, vars, daemonVars>>

TwoWriters == {w1, w2}
OneReader == {r1}
TwoChildren == {c1, c2}
(* An id of 0, which also marks a free slot, and two that are not. *)
MCIds == {0, 7, 16789}
AllDaemons == {gateway_d, gateway_foreground, single_mydaemon, syslog_06, ai_06, daemon_05, daemon_03}

GateInit ==
  /\ running \in {"table", "processes", "exit", "daemons"}
  /\ TableInit /\ ProcInit /\ Init /\ DaemonInit
  /\ running # "processes" => daemon = FALSE
  /\ running # "daemons" => dprog = gateway_d

InTable(A) == running = "table" /\ A /\ UNCHANGED <<running, procVars, vars, daemonVars>>
InProcs(A) == running = "processes" /\ A /\ UNCHANGED <<running, tableVars, vars, daemonVars>>
InExit(A) == running = "exit" /\ A /\ UNCHANGED <<running, tableVars, procVars, daemonVars>>
InDaemons(A) == running = "daemons" /\ A /\ UNCHANGED <<running, tableVars, procVars, vars>>

GateNext == InTable(TableNext) \/ InProcs(ProcNext) \/ InExit(Next) \/ InDaemons(DaemonNext)

(* Processes that can run do; the kernel wakes the sleepers of a semaphore *)
(* in the order they came.  No handler need ever run.                      *)
GateSpec ==
  /\ GateInit /\ [][GateNext]_gateVars
  /\ \A c \in Writers \cup Readers :
       SF_gateVars(InTable(SemTaken(c))) /\ WF_gateVars(InTable(TableStep(c)))
  /\ \A c \in Children : WF_gateVars(InProcs(Child(c))) /\ WF_gateVars(InProcs(Fork(c)))
  /\ WF_gateVars(InProcs(OpenReadWrite))
=============================================================================
