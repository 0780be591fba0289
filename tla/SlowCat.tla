------------------------------- MODULE SlowCat -------------------------------
(***************************************************************************)
(* The cat programs that copy a file to the terminal at a fixed rate:      *)
(* SIGALRM fills a bucket of bytes (or raises a flag), and the copying     *)
(* loop waits for it, takes what it may and reads as much.  The signal is  *)
(* handled between any two steps of the loop; token -= n is a load and a   *)
(* store.  15tbf and 15tbf_2 keep the bucket in a library.                 *)
(***************************************************************************)
EXTENDS Integers, FiniteSetsExt

CONSTANTS
  BUFSIZE,     \* what one read asks for at most
  FileLen,     \* bytes of the file
  MaxAlarms,   \* bound: the count of alarms saturates here
  Cats         \* the programs considered

ASSUME CatAssumption ==
  /\ BUFSIZE \in Nat \ {0} /\ FileLen \in Nat /\ MaxAlarms \in Nat
  /\ FileLen <= BUFSIZE * MaxAlarms
  /\ \A c \in Cats : c.BURST \in Nat

VARIABLES
  cat,               \* the program that runs
  catpc,             \* where its main flow is
  token, reg, n,     \* the bucket, a register, the local n
  left, out,         \* bytes of the file still to read, bytes written
  alarms             \* SIGALRMs handled, up to MaxAlarms

catVars == <<cat, catpc, token, reg, n, left, out, alarms>>
-----------------------------------------------------------------------------
(* How the programs wait and take: a flag is a bucket that one tick fills  *)
(* and one read empties.  15tbf_2 blocks SIGALRM when the library is       *)
(* loaded and never unblocks it.                                           *)
slowcat == [waits |-> "spin", takes |-> "all", blocks |-> FALSE, library |-> FALSE, BURST |-> BUFSIZE]
re02alarm == [waits |-> "pause", takes |-> "all", blocks |-> FALSE, library |-> FALSE, BURST |-> BUFSIZE]
slowcat_token == [waits |-> "pause", takes |-> "part", blocks |-> FALSE, library |-> FALSE, BURST |-> BUFSIZE * 20]
sigitimer == [waits |-> "pause", takes |-> "part", blocks |-> FALSE, library |-> FALSE, BURST |-> BUFSIZE * 20]
tbf == [waits |-> "pause", takes |-> "part", blocks |-> FALSE, library |-> TRUE, BURST |-> BUFSIZE * 20]
tbf_2 == [waits |-> "pause", takes |-> "part", blocks |-> TRUE, library |-> TRUE, BURST |-> BUFSIZE * 20]

CPS == BUFSIZE
-----------------------------------------------------------------------------
CatInit ==
  /\ cat \in Cats
  /\ catpc = "start"
  /\ token = 0 /\ reg = 0 /\ n = 0
  /\ left = FileLen /\ out = 0 /\ alarms = 0

CatGoes(from, to) == catpc = from /\ catpc' = to

(* tbf_init may find no memory, open no file. *)
OpenFile ==
  /\ CatGoes("start", "test") \/ CatGoes("start", "end")
  /\ UNCHANGED <<cat, token, reg, n, left, out, alarms>>

(* while (token <= 0) pause(): a tick between the two is not noticed. *)
TestToken ==
  /\ \/ token > 0 /\ CatGoes("test", "choose")
     \/ token <= 0 /\ cat.waits = "pause" /\ CatGoes("test", "call")
  /\ UNCHANGED <<cat, token, reg, n, left, out, alarms>>
Pause ==
  /\ CatGoes("call", "pause")
  /\ UNCHANGED <<cat, token, reg, n, left, out, alarms>>

ChooseN ==
  /\ CatGoes("choose", "load")
  /\ n' = Min({token, BUFSIZE})
  /\ UNCHANGED <<cat, token, reg, left, out, alarms>>
LoadToken ==
  /\ CatGoes("load", "store")
  /\ reg' = token
  /\ UNCHANGED <<cat, token, n, left, out, alarms>>
StoreForgets ==
  /\ CatGoes("store", "read")
  /\ token' = IF cat.takes = "all" THEN token ELSE reg - n
  /\ UNCHANGED <<cat, reg, n, left, out, alarms>>
StoreToken ==
  /\ CatGoes("store", "read")
  /\ token' = IF cat.takes = "all" THEN 0 ELSE reg - n
  /\ UNCHANGED <<cat, reg, n, left, out, alarms>>

(* read and write; a read of nothing, or that fails, ends the loop. *)
ReadWrite ==
  /\ \/ /\ left > 0 /\ CatGoes("read", "test")
        /\ left' = left - Min({n, left}) /\ out' = out + Min({n, left})
     \/ CatGoes("read", "end") /\ UNCHANGED <<left, out>>
  /\ UNCHANGED <<cat, token, reg, n, alarms>>

mycat == OpenFile \/ TestToken \/ Pause \/ ChooseN \/ LoadToken \/ StoreToken \/ ReadWrite

(* SIGALRM: the handler sets the next alarm, or the interval timer goes on.*)
sig_handler_once ==
  /\ catpc \notin {"start", "end"} /\ ~cat.blocks /\ alarms = 0
  /\ token' = Min({token + CPS, cat.BURST})
  /\ alarms' = 1
  /\ catpc' = IF catpc = "pause" THEN "test" ELSE catpc
  /\ UNCHANGED <<cat, reg, n, left, out>>
sig_handler ==
  /\ catpc \notin {"start", "end"} /\ ~cat.blocks
  /\ token' = Min({token + CPS, cat.BURST})
  /\ alarms' = Min({alarms + 1, MaxAlarms})
  /\ catpc' = IF catpc = "pause" THEN "test" ELSE catpc
  /\ UNCHANGED <<cat, reg, n, left, out>>

CatNext == mycat \/ sig_handler

CatSpec == CatInit /\ [][CatNext]_catVars
-----------------------------------------------------------------------------
(* However SIGALRM falls into the loop, no more is written than the alarms *)
(* so far allow, and the bucket never holds more than its burst or less    *)
(* than nothing: a tick between the load and the store is lost, never      *)
(* counted twice.                                                          *)
CatKeepsRate ==
  /\ token \in 0 .. cat.BURST
  /\ out <= CPS * alarms

(* The whole file gets copied, unless read fails: a tick that falls        *)
(* between the test and pause() delays the loop, it does not stop it.      *)
(* 15tbf_2 is excepted: it never gets a tick.                              *)
CatEnds == []<>(catpc \in {"start", "end"} \/ cat.blocks)
=============================================================================
