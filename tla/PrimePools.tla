----------------------------- MODULE PrimePools ------------------------------
(***************************************************************************)
(* The programs that look for primes between MIN and MAX with several      *)
(* processes or threads.  They differ in how a number finds its worker: a  *)
(* worker of its own, the remainder of the number, a shared counter under  *)
(* a semaphore, or a variable that main fills and workers empty under a    *)
(* mutex.  Creating a worker may fail; a process may be killed.            *)
(***************************************************************************)
EXTENDS Integers, FiniteSets

CONSTANTS
  MIN, MAX,        \* the numbers
  Crew,            \* workers of the programs that have four
  PrimePrograms    \* the programs considered

VARIABLES
  pprog,           \* the program that runs
  boss,            \* where main is
  created,         \* workers created
  next,            \* the next number main hands out
  job,             \* the shared counter, or the number handed out
  owner,           \* who holds the semaphore or mutex: a worker, Free or MainThread
  wpc, num,        \* where each worker is, and its number
  printed,         \* how often each number was printed
  lost             \* a worker was killed

primeVars == <<pprog, boss, created, next, job, owner, wpc, num, printed, lost>>
-----------------------------------------------------------------------------
fork_each == [allots |-> "own", threads |-> FALSE, upto |-> "less"]
thread_each == [allots |-> "own", threads |-> TRUE, upto |-> "equal"]
prime_con == [allots |-> "remainder", threads |-> FALSE, upto |-> "equal"]
prime_sem == [allots |-> "counter", threads |-> FALSE, upto |-> "equal"]
prime_ptd == [allots |-> "counter", threads |-> FALSE, upto |-> "equal"]
prime_mutex == [allots |-> "handed", threads |-> TRUE, upto |-> "equal"]

ASSUME PrimeAssumption ==
  /\ MIN \in Nat \ {0} /\ MAX \in Nat /\ MIN <= MAX /\ Crew \in Nat \ {0}
  /\ PrimePrograms \subseteq {fork_each, thread_each, prime_con, prime_sem, prime_ptd, prime_mutex}
-----------------------------------------------------------------------------
Free == -1
MainThread == -2
NUM == IF pprog.allots = "own" THEN MAX - MIN + 1 ELSE Crew
CrewOf == 0 .. NUM - 1
Shares == pprog.allots \in {"counter", "handed"}

PrimeInit ==
  /\ pprog \in PrimePrograms
  /\ boss = "create" /\ created = 0 /\ next = MIN
  /\ job = IF pprog.allots = "counter" THEN MIN ELSE 0
  /\ owner = Free
  /\ wpc = [w \in CrewOf |-> "none"] /\ num = [w \in CrewOf |-> 0]
  /\ printed = [n \in MIN .. MAX |-> 0] /\ lost = FALSE

WorkerGoes(w, from, to) == wpc[w] = from /\ wpc' = [wpc EXCEPT ![w] = to]

(* fork or pthread_create; when it fails main exits, and its threads with  *)
(* it, while child processes go on.                                        *)
Create ==
  /\ boss = "create"
  /\ IF created < NUM
     THEN created' = created + 1 /\ wpc' = [wpc EXCEPT ![created] = IF Shares THEN "lock" ELSE "choose"] /\ UNCHANGED boss
     ELSE boss' = (IF pprog.allots = "handed" THEN "lock" ELSE "wait") /\ UNCHANGED <<created, wpc>>
  /\ UNCHANGED <<pprog, next, job, owner, num, printed, lost>>
CreateFails ==
  /\ boss = "create" /\ created < NUM
  /\ boss' = "exit"
  /\ wpc' = IF pprog.threads THEN [w \in CrewOf |-> "ended"] ELSE wpc
  /\ UNCHANGED <<pprog, created, next, job, owner, num, printed, lost>>

(* main of 06mutex: lock, wait by polling until the last number was taken, *)
(* put the next one or -1, unlock.                                         *)
LockMain ==
  /\ boss = "lock" /\ owner = Free
  /\ boss' = "hand" /\ owner' = MainThread
  /\ UNCHANGED <<pprog, created, next, job, wpc, num, printed, lost>>
HandOut ==
  /\ boss = "hand"
  /\ owner' = Free
  /\ IF job > 0 THEN boss' = "lock" /\ UNCHANGED <<job, next>>
     ELSE /\ job' = IF next <= MAX THEN next ELSE -1
          /\ next' = next + 1
          /\ boss' = IF next <= MAX THEN "lock" ELSE "wait"
  /\ UNCHANGED <<pprog, created, wpc, num, printed, lost>>

WaitAll ==
  /\ boss = "wait" /\ \A w \in CrewOf : wpc[w] = "ended"
  /\ boss' = "exit"
  /\ UNCHANGED <<pprog, created, next, job, owner, wpc, num, printed, lost>>
-----------------------------------------------------------------------------
(* A worker's own number, or the next one with its remainder. *)
Choose(w) ==
  /\ wpc[w] = "choose"
  /\ LET Mine == {n \in MIN .. MAX : n > num[w] /\ IF pprog.allots = "own" THEN n = MIN + w ELSE n % NUM = w}
     IN \/ Mine = {} /\ WorkerGoes(w, "choose", "ended") /\ UNCHANGED num
        \/ \E n \in Mine : /\ \A k \in Mine : n <= k
                           /\ WorkerGoes(w, "choose", "test")
                           /\ num' = [num EXCEPT ![w] = n]
  /\ UNCHANGED <<pprog, boss, created, next, job, owner, printed, lost>>

LockUnguarded(w) ==
  /\ WorkerGoes(w, "lock", "look")
  /\ owner' = w
  /\ UNCHANGED <<pprog, boss, created, next, job, num, printed, lost>>
LockShared(w) ==
  /\ WorkerGoes(w, "lock", "look") /\ owner = Free
  /\ owner' = w
  /\ UNCHANGED <<pprog, boss, created, next, job, num, printed, lost>>

Over == IF pprog.allots = "counter" THEN job > MAX ELSE job = -1
Look(w) ==
  /\ wpc[w] = "look"
  /\ \/ Over /\ WorkerGoes(w, "look", "ended") /\ owner' = Free /\ UNCHANGED num
     \/ ~Over /\ job = 0 /\ WorkerGoes(w, "look", "lock") /\ owner' = Free /\ UNCHANGED num
     \/ ~Over /\ job > 0 /\ WorkerGoes(w, "look", "take") /\ num' = [num EXCEPT ![w] = job] /\ UNCHANGED owner
  /\ UNCHANGED <<pprog, boss, created, next, job, printed, lost>>

TakeShared(w) ==
  /\ WorkerGoes(w, "take", "unlock")
  /\ job' = IF pprog.allots = "counter" THEN job + 1 ELSE 0
  /\ UNCHANGED <<pprog, boss, created, next, owner, num, printed, lost>>
UnlockShared(w) ==
  /\ WorkerGoes(w, "unlock", "test")
  /\ owner' = Free
  /\ UNCHANGED <<pprog, boss, created, next, job, num, printed, lost>>

(* is_prime: the loop over i up to num / i; 02few/07prime.c stops before.  *)
is_prime(n) ==
  /\ n > 1
  /\ \/ n \in {2, 3}
     \/ \A i \in 2 .. n : (i < n \div i \/ (pprog.upto = "equal" /\ i = n \div i)) => n % i # 0

PrintIfPrime(w) ==
  /\ WorkerGoes(w, "test", IF Shares THEN "lock" ELSE "choose")
  /\ printed' = IF is_prime(num[w]) THEN [printed EXCEPT ![num[w]] = @ + 1] ELSE printed
  /\ UNCHANGED <<pprog, boss, created, next, job, owner, num, lost>>

(* A child process is killed; SEM_UNDO frees the semaphore it holds.       *)
KillWorker(w) ==
  /\ ~pprog.threads /\ ~lost /\ wpc[w] \notin {"none", "ended"}
  /\ wpc' = [wpc EXCEPT ![w] = "ended"]
  /\ owner' = IF owner = w THEN Free ELSE owner
  /\ lost' = TRUE
  /\ UNCHANGED <<pprog, boss, created, next, job, num, printed>>

PrimeNext ==
  \/ Create \/ CreateFails \/ LockMain \/ HandOut \/ WaitAll
  \/ \E w \in CrewOf : Choose(w) \/ LockShared(w) \/ Look(w) \/ TakeShared(w) \/ UnlockShared(w) \/ PrintIfPrime(w) \/ KillWorker(w)

PrimeSpec == PrimeInit /\ [][PrimeNext]_primeVars
-----------------------------------------------------------------------------
PrimeTypeOK ==
  /\ pprog \in PrimePrograms /\ boss \in {"create", "lock", "hand", "wait", "exit"}
  /\ created \in 0 .. NUM /\ next \in MIN .. MAX + 2 /\ job \in -1 .. MAX + 1
  /\ owner \in CrewOf \cup {Free, MainThread} /\ lost \in BOOLEAN
  /\ wpc \in [CrewOf -> {"none", "choose", "lock", "look", "take", "unlock", "test", "ended"}]
  /\ num \in [CrewOf -> 0 .. MAX] /\ printed \in [MIN .. MAX -> Nat]

IsPrime(n) == n > 1 /\ \A d \in 2 .. n - 1 : n % d # 0
SquareOfPrime(n) == \E p \in 2 .. n : p * p = n /\ IsPrime(p)

(* No number is printed twice, however workers take turns and whichever is *)
(* killed, and when main has created all its workers, none was killed and  *)
(* all have ended, exactly the primes are printed (by 02few/07prime.c also *)
(* their squares).                                                         *)
PrimesPrintedOnce ==
  /\ PrimeTypeOK
  /\ \A n \in MIN .. MAX : printed[n] <= 1
  /\ boss = "exit" /\ created = NUM /\ ~lost =>
       \A n \in MIN .. MAX : printed[n] = 1 <=> (IsPrime(n) \/ (pprog.upto = "less" /\ SquareOfPrime(n)))
=============================================================================
