----------------------------- MODULE TbfThreads ------------------------------
(***************************************************************************)
(* The token bucket library with threads: a table of pointers to buckets,  *)
(* each with a mutex and a condition variable, and a thread of the library *)
(* that once a second fills all of them under mut_job.  Client threads     *)
(* create, use and destroy buckets, and keep their own calls in order: one *)
(* creates or destroys at a time, and a bucket is destroyed when no other  *)
(* client is in a call on it.  The library's own thread is under nobody's  *)
(* control.  Using a null, freed or unset bucket is undefined, and the     *)
(* model stops there.                                                      *)
(***************************************************************************)
EXTENDS Integers, FiniteSets, FiniteSetsExt

CONSTANTS
  TbfClients,       \* threads that use the library
  NobodyHere,       \* the holder of a free mutex
  TBFMAX,           \* entries of the table
  cps, burst,       \* the arguments of tbf_init
  Wanted,           \* numbers of tokens fetched or returned
  MaxBuckets,       \* bound: buckets allocated
  MaxTbfCalls,      \* bound: calls of fetch and return
  MaxFills          \* bound: the count of fills saturates here

ASSUME TbfAssumption ==
  /\ NobodyHere \notin TbfClients
  /\ cps \in Nat \ {0} /\ burst \in Nat \ {0} /\ Wanted \subseteq Nat /\ MaxFills \in Nat

VARIABLES
  tbf_libs,        \* the table: a bucket or 0, the null pointer
  heap,            \* the buckets ever allocated
  mut_job,         \* its holder
  job, i,          \* where the filling thread is, and its index
  locked,          \* the bucket whose mutex it holds
  tbfpc, td,       \* where each client is, and its descriptor
  mine,            \* the bucket whose mutex each client waits for or holds
  want,            \* the number of tokens of its call
  tbfCalls,        \* calls so far
  crashed          \* a null, freed or unset bucket was used

tbfVars == <<tbf_libs, heap, mut_job, job, i, locked, tbfpc, td, mine, want, tbfCalls, crashed>>
-----------------------------------------------------------------------------
Entries == 0 .. TBFMAX - 1
Buckets == 1 .. MaxBuckets
Library == "library"    \* the filling thread as the holder of mut_job

Unborn == [state |-> "none", token |-> 0, held |-> FALSE, fills |-> 0, fetched |-> 0, returned |-> 0]
Valid(b) == b # 0 /\ heap[b].state = "live"

TbfInit ==
  /\ tbf_libs = [e \in Entries |-> 0] /\ heap = [b \in Buckets |-> Unborn]
  /\ mut_job = NobodyHere /\ job = "none" /\ i = 0 /\ locked = 0
  /\ tbfpc = [c \in TbfClients |-> "idle"] /\ td = [c \in TbfClients |-> 0]
  /\ mine = [c \in TbfClients |-> 0] /\ want = [c \in TbfClients |-> 0]
  /\ tbfCalls = 0 /\ crashed = FALSE

Undefined == crashed' = TRUE /\ UNCHANGED <<tbf_libs, heap, mut_job, job, i, locked, tbfpc, td, mine, want, tbfCalls>>
TbfGoes(c, from, to) == tbfpc[c] = from /\ tbfpc' = [tbfpc EXCEPT ![c] = to]
InCall(e) == {c \in TbfClients : tbfpc[c] # "idle" /\ td[c] = e}
Alone == \A c \in TbfClients : tbfpc[c] \notin {"set", "clear"}
jobVars == <<mut_job, job, i, locked>>
callVars == <<td, mine, want, tbfCalls>>
-----------------------------------------------------------------------------
(* tbf_init: the first call starts the thread; the first free entry gets a *)
(* new bucket, which the thread can see before its fields are set.         *)
tbf_init(c) ==
  /\ TbfGoes(c, "idle", "set") /\ Alone
  /\ \E b \in Buckets, e \in Entries :
       /\ heap[b].state = "none" /\ \A a \in 1 .. b - 1 : heap[a].state # "none"
       /\ tbf_libs[e] = 0 /\ \A d \in 0 .. e - 1 : tbf_libs[d] # 0
       /\ tbf_libs' = [tbf_libs EXCEPT ![e] = b]
       /\ td' = [td EXCEPT ![c] = e]
       /\ heap' = [heap EXCEPT ![b].state = "raw"]
  /\ job' = IF job = "none" THEN "lock" ELSE job
  /\ UNCHANGED <<mut_job, i, locked, mine, want, tbfCalls, crashed>>
InitFields(c) ==
  /\ TbfGoes(c, "set", "idle")
  /\ heap' = [heap EXCEPT ![tbf_libs[td[c]]].state = "live"]
  /\ UNCHANGED <<tbf_libs, jobVars, callVars, crashed>>

(* The refusals of a null entry are in the guards. *)
Begin(c, label) ==
  /\ TbfGoes(c, "idle", label)
  /\ tbfCalls < MaxTbfCalls /\ tbfCalls' = tbfCalls + 1
  /\ \E e \in Entries, w \in Wanted :
       /\ tbf_libs[e] # 0 /\ \A d \in InCall(e) : tbfpc[d] \notin {"set", "clear"}
       /\ td' = [td EXCEPT ![c] = e] /\ want' = [want EXCEPT ![c] = w]
       /\ mine' = [mine EXCEPT ![c] = tbf_libs[e]]
  /\ UNCHANGED <<tbf_libs, heap, jobVars, crashed>>

LockBucket(c, from, to) ==
  /\ TbfGoes(c, from, to)
  /\ ~heap[mine[c]].held
  /\ heap' = [heap EXCEPT ![mine[c]].held = TRUE]
  /\ UNCHANGED <<tbf_libs, jobVars, callVars, crashed>>

(* pthread_cond_wait while there is no token. *)
WaitOnce(c) ==
  /\ TbfGoes(c, "test", "never")
  /\ heap[mine[c]].token <= 0
  /\ heap' = [heap EXCEPT ![mine[c]].held = FALSE]
  /\ UNCHANGED <<tbf_libs, jobVars, callVars, crashed>>
WaitToken(c) ==
  /\ TbfGoes(c, "test", "wait")
  /\ heap[mine[c]].token <= 0
  /\ heap' = [heap EXCEPT ![mine[c]].held = FALSE]
  /\ UNCHANGED <<tbf_libs, jobVars, callVars, crashed>>

FetchAll(c) ==
  /\ TbfGoes(c, "test", "idle")
  /\ heap[mine[c]].token > 0
  /\ heap' = [heap EXCEPT ![mine[c]].token = @ - want[c], ![mine[c]].fetched = @ + want[c], ![mine[c]].held = FALSE]
  /\ UNCHANGED <<tbf_libs, jobVars, callVars, crashed>>
getmin(m, k) == IF m > k THEN k ELSE m
FetchToken(c) ==
  /\ TbfGoes(c, "test", "idle")
  /\ heap[mine[c]].token > 0
  /\ LET f == getmin(heap[mine[c]].token, want[c]) IN
     heap' = [heap EXCEPT ![mine[c]].token = @ - f, ![mine[c]].fetched = @ + f, ![mine[c]].held = FALSE]
  /\ UNCHANGED <<tbf_libs, jobVars, callVars, crashed>>

Filled(b, k) == getmin(heap[b].token + k, burst)
Broadcast(b, pcs) == [c \in TbfClients |-> IF pcs[c] = "wait" /\ mine[c] = b THEN "relock" ELSE pcs[c]]

(* tbf_return_token: the unlock, then the broadcast. *)
AddReturned(c) ==
  /\ TbfGoes(c, "give", "broadcast")
  /\ heap' = [heap EXCEPT ![mine[c]].token = Filled(mine[c], want[c]), ![mine[c]].returned = @ + want[c],
                           ![mine[c]].held = FALSE]
  /\ UNCHANGED <<tbf_libs, jobVars, callVars, crashed>>
BroadcastReturned(c) ==
  /\ tbfpc[c] = "broadcast"
  /\ tbfpc' = [Broadcast(mine[c], tbfpc) EXCEPT ![c] = "idle"]
  /\ UNCHANGED <<tbf_libs, heap, jobVars, callVars, crashed>>

(* tbf_destroy: the bucket is freed, then the entry cleared. *)
tbf_destroy(c) ==
  /\ TbfGoes(c, "idle", "clear") /\ Alone
  /\ \E e \in Entries : /\ tbf_libs[e] # 0 /\ InCall(e) = {}
                        /\ td' = [td EXCEPT ![c] = e]
                        /\ heap' = [heap EXCEPT ![tbf_libs[e]].state = "freed"]
  /\ UNCHANGED <<tbf_libs, jobVars, mine, want, tbfCalls, crashed>>
ClearEntry(c) ==
  /\ TbfGoes(c, "clear", "idle")
  /\ tbf_libs' = [tbf_libs EXCEPT ![td[c]] = 0]
  /\ UNCHANGED <<heap, jobVars, callVars, crashed>>

(* tbf_destroy_all: all of it under mut_job. *)
tbf_destroy_all(c) ==
  /\ tbfpc[c] = "idle" /\ mut_job = NobodyHere
  /\ \A d \in TbfClients : tbfpc[d] = "idle"
  /\ heap' = [b \in Buckets |-> IF \E e \in Entries : tbf_libs[e] = b THEN [heap[b] EXCEPT !.state = "freed"] ELSE heap[b]]
  /\ tbf_libs' = [e \in Entries |-> 0]
  /\ UNCHANGED <<jobVars, tbfpc, callVars, crashed>>

Client(c) ==
  \/ LockBucket(c, "f_lock", "test") \/ LockBucket(c, "relock", "test")
  \/ WaitToken(c) \/ FetchToken(c)
  \/ LockBucket(c, "r_lock", "give") \/ AddReturned(c) \/ BroadcastReturned(c)
  \/ InitFields(c) \/ ClearEntry(c)
-----------------------------------------------------------------------------
JobGoes(from, to) == job = from /\ job' = to

LockJob ==
  /\ JobGoes("lock", "check") /\ mut_job = NobodyHere
  /\ mut_job' = Library /\ i' = 0
  /\ UNCHANGED <<tbf_libs, heap, locked, tbfpc, callVars, crashed>>
CheckEntry ==
  /\ i < TBFMAX
  /\ IF tbf_libs[i] # 0 THEN JobGoes("check", "mutex") /\ UNCHANGED i
                        ELSE job = "check" /\ i' = i + 1 /\ UNCHANGED job
  /\ UNCHANGED <<tbf_libs, heap, mut_job, locked, tbfpc, callVars, crashed>>

(* Every use of tbf_libs[i] reads the entry again. *)
FillLock ==
  \/ job = "mutex" /\ ~Valid(tbf_libs[i]) /\ Undefined
  \/ /\ JobGoes("mutex", "fill")
     /\ Valid(tbf_libs[i]) /\ ~heap[tbf_libs[i]].held
     /\ heap' = [heap EXCEPT ![tbf_libs[i]].held = TRUE]
     /\ locked' = tbf_libs[i]
     /\ UNCHANGED <<tbf_libs, mut_job, i, tbfpc, callVars, crashed>>
Fill ==
  \/ job = "fill" /\ tbf_libs[i] # locked /\ Undefined
  \/ job = "fill" /\ ~Valid(locked) /\ Undefined
  \/ /\ JobGoes("fill", "broadcast")
     /\ Valid(locked) /\ tbf_libs[i] = locked
     /\ heap' = [heap EXCEPT ![locked].token = Filled(locked, cps), ![locked].fills = getmin(@ + 1, MaxFills),
                              ![locked].held = FALSE]
     /\ UNCHANGED <<tbf_libs, mut_job, i, locked, tbfpc, callVars, crashed>>
FillBroadcast ==
  \/ job = "broadcast" /\ ~Valid(tbf_libs[i]) /\ Undefined
  \/ /\ JobGoes("broadcast", "check")
     /\ Valid(tbf_libs[i])
     /\ tbfpc' = Broadcast(tbf_libs[i], tbfpc) /\ i' = i + 1 /\ locked' = 0
     /\ UNCHANGED <<tbf_libs, heap, mut_job, callVars, crashed>>
UnlockJob ==
  /\ i = TBFMAX /\ JobGoes("check", "lock")
  /\ mut_job' = NobodyHere
  /\ UNCHANGED <<tbf_libs, heap, i, locked, tbfpc, callVars, crashed>>

thr_fun == LockJob \/ CheckEntry \/ FillLock \/ Fill \/ FillBroadcast \/ UnlockJob

TbfNext ==
  /\ ~crashed
  /\ \/ thr_fun
     \/ \E c \in TbfClients :
          \/ Client(c) \/ tbf_init(c) \/ Begin(c, "f_lock") \/ Begin(c, "r_lock")
          \/ tbf_destroy(c) \/ tbf_destroy_all(c)

TbfSpec == TbfInit /\ [][TbfNext]_tbfVars
-----------------------------------------------------------------------------
(* Tokens come from fills and returns only: what was fetched and what is   *)
(* left never exceed them, and a bucket holds between nothing and burst,   *)
(* although fills, returns and fetches of several threads meet.            *)
TokensAccounted ==
  \A b \in Buckets :
    /\ heap[b].token \in 0 .. burst
    /\ heap[b].fills < MaxFills => heap[b].token + heap[b].fetched <= cps * heap[b].fills + heap[b].returned

(* A fetch returns: the thread's broadcast after the unlock reaches every  *)
(* fetch that waits, one that goes to sleep at that moment included.       *)
FetchersAreServed == []<>(crashed \/ \A c \in TbfClients : tbfpc[c] = "idle")

(* 11tbf_thread/tbf.c:193 "avoid wild pointers": no thread follows a null  *)
(* or freed pointer.  (It may meet a bucket whose fields are not yet set.) *)
NoWildPointer == crashed => tbf_libs[i] # 0 /\ heap[tbf_libs[i]].state = "raw"
=============================================================================
