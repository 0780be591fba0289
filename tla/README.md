# A TLA+ verification of Mycode_c

The repository is a collection of C programs. The largest and only one with a
life of its own is the IoT gateway in `src/高编项目`: a reactor that receives UDP
packets, a thread pool that parses them, a queue to a cloud uploader, a process
pool that answers commands, a table in shared memory, a periodic scheduler and a
packet limiter. Around it stand a second thread pool (`src/pthread_pool`), data
structures written several times over (`src/lib1` … `src/rub_by_hand`, `src/list`,
`src/stack`, `src/queue`, `src/hash_table`, `src/tree`), three log pipelines
(`src/LogHawk*`, `src/AI_LogHawk`) and course examples on Unix programming
(`src/apue`, `src/ipc`, `src/fsm`).

This project models the gateway with its start and its end, the self-sizing pool,
the log pipelines, the programs of the courses in which processes, threads or
signals meet, and the sequential programs with lasting state. What it leaves out
is in section 7.

## 1. Inventory

| part | state | operations | hard behaviour | what makes it correct |
|---|---|---|---|---|
| thread pool `thread_pool.c` | ring of tasks, count, shutdown, mutex, condition variable | create, worker loop, add, destroy | one signal per task, spurious wake-ups, destroy against sleeping, waking and running workers, half-built pools | FIFO, each task once, no lost wake-up, nothing used after free, destroy returns |
| reading queue `udp_server.c`, `cloud_client.c` | ring with one free slot, `queue_mutex`, `data_sem` | push and post, wait and take a batch, upload | the semaphore is posted after the unlock and taken inside it; indices read without the lock | tokens and readings agree, batches complete and in order, every reading taken |
| packet limiter `token_bucket.c` | tokens, time of last refill | consume | clock set forward or back, long idle times | rate bounded over every interval, waiting is rewarded |
| shared table `ipc_modules.c` | slots in shared memory, System V semaphore with SEM_UNDO | update, read | threads of one process and other processes, any of which may be killed inside; a wait for the semaphore that a handler ends, unnoticed | one client inside (violated after such a wait), one slot per sensor, reads are current, nobody waits for ever |
| alarm scheduler `alarm_scheduler.c` | slots with countdowns, interval timer | add task, SIGALRM handler, destroy | a handler that adds to the pool on top of any thread | no drift, the pool stays sound, the handler returns (it may not) |
| process pool `process_pool.c` | FIFO, children | init, submit, child loop, destroy | byte stream read by several processes, death of the gateway | each command at most once, children end |
| exit sequence and log `main.c`, `daemon.c`, `logger.c` | log mutex, the resources main owns | the steps of main after poll, SIGTERM | cancellation at library calls, tasks still running | log lines whole, clean end, the sequence ends (it may not) |
| start `main.c`, `config.c`, `password_auth.c`, `daemon.c`, and `apue/05daemon` | lock file, PID in it, password attempts | load, authenticate, fork, open, lock, truncate, write, end | instances started against each other, killed and started again; a path that names another file than the one locked | one instance works at a time (not in `06ai.c` after an unlink) |
| self-sizing pool `pthread_pool/` | ring queue, worker array, three counters | add, worker, admin, destroy | grow and shrink requests, one condition variable for two purposes, creations that fail unnoticed | FIFO, counters right up to the failed creations, never too few workers, producers get in, each task once (violated) |
| LogHawk, LogHawk_2, AI_LogHawk | ring in shared memory, three semaphores, message queue, bucket | collector, processor, outputer, SIGALRM | kills, SEM_UNDO on all three semaphores or on none, adjustments that outgrow the kernel's range, a full message queue, `token--` against the handler | lines neither lost nor doubled, all written if nobody dies; AI_LogHawk writes what it never received |
| slow cats and buckets over SIGALRM `apue/signal`, `apue/15tbf*` | bucket or flag, file | fetch, take, copy; handler | the handler between a load and a store | never faster than the rate, and the file is copied |
| any-timer `apue/16anytimer` | table of countdowns | init, destroy, handler | the handler between two assignments to a slot | rings when it should, once |
| signal masks `apue/signal` | mask, pending and queued signals | block, unblock, sigsuspend | a signal between unblocking and waiting | marks only between lines, waits end with a signal |
| bucket library with threads `apue/pthread/11tbf_thread` | table, buckets with mutex and condition variable | init, fetch, return, destroy, filling thread | broadcast after the unlock, destroy against the filling thread | tokens accounted for, fetches return; a freed bucket is used |
| prime programs `apue/02few`, `apue/pthread`, `ipc` | numbers handed out, mutex or semaphore | hand out, take, print | overwritten or twice taken numbers, kills, failing creation | each prime printed once |
| ordered output `ipc/09mycat_sem.c`, `10mycat_sem.c`, `apue/pthread/09homework.c` | semaphores or mutex, shared file offset | wait, copy, post | shared and private offsets, kills, failing open and read | the output is a prefix of what it should be |
| circular lists and their clients | heap of doubly linked nodes | create, insert, find, delete, fetch, pop, replace, destroy | reuse of freed nodes, failing malloc | links sound, nothing leaks, behaves as sequences |
| search tree `tree/01tree.c` | tree | insert, find, delete, balance | grafting and turning with equal keys, `while (1)` in balance | ordered, complete, balancing ends everywhere even |
| calculators `stack/04repolish`, `stack/05test` | operator and number stack of fixed size | convert, evaluate | full stacks, unknown characters, unbalanced parentheses | the value of the expression |
| gomoku, three copies | board, player to move | choose, set a stone, look for a line | runs through the last stone in both directions, full board, coordinates that are not on the board | the game ends with the first line and not before; five in a row wins (violated on the last point) |
| recipe manager `c+ds/` | list, next id, file | add, change, delete, save, load, exit, restart | what a load keeps and what it replaces | an id identifies one recipe |

How the gateway's parts meet: `main` loads the configuration, asks for the
password, becomes a daemon under the lock file and creates everything; the reactor
(main thread) limits packets with the bucket and gives them to the thread pool with
`threadpool_add`; a worker parses a packet, pushes a reading, posts `data_sem` and
updates the shared table, or submits a command to the process pool's FIFO, whose
children read the table; the cloud thread takes batches; SIGALRM adds the
heartbeat task to the same thread pool; everybody logs through one mutex. So the
pool's lock, `queue_mutex`, the table's semaphore and `log_mutex` are the shared
state, and they are nested only as the modules show. The other programs do not
meet each other.

`PROJECT.json` lists the components, the definitions with the lines they model,
and the hazards: what is hard to test in this code, at the line where it bites,
with the properties about it.

## 2. Modules

| module | models | used by |
|---|---|---|
| `ThreadPool` | `thread_pool.c` | `AlarmPool`, `MCThreadPool`, `ThreadPoolProofs` |
| `AlarmPool` | `alarm_scheduler.c` composed with `ThreadPool` | `MCTimers`, `MCAlarmPool`, `ThreadPoolProofs` |
| `SharedTable` | `ipc_modules.c` | `MCGateway`, `GatewayProofs` |
| `ProcessPool` | `process_pool.c` | `MCGateway`, `GatewayProofs` |
| `GatewayExit` | `main.c` 84-97, `daemon.c`, `logger.c` and the threads that still run | `MCGateway`, `MCGatewayExit`, `GatewayProofs` |
| `Daemons` | the gateway's start and the daemon exercises | `MCGateway`, `GatewayProofs` |
| `DynPool` | `pthread_pool/pool.c`, `queue.c` | `MCThreadPool`, `DynPoolProofs` |
| `DataQueue` | `process_udp_data_task`, `cloud_client_thread` | `MCPipelines`, `PipelineProofs` |
| `LogPipeline` | the three LogHawks | `MCPipelines`, `PipelineProofs` |
| `PrimePools`, `OrderedOutput` | six prime programs; two cats and the letter printers | `MCPipelines`, `ProgramProofs` |
| `TokenBucket` | `token_bucket.c` | `MCTimers`, `TimerProofs` |
| `SlowCat`, `AnyTimer`, `SignalLines` | six cats over SIGALRM; the any-timer; four programs with signal masks | `MCTimers`, `TimerProofs` |
| `TbfThreads` | `apue/pthread/11tbf_thread/tbf.c` | `MCTimers`, `TimerProofs` |
| `LinkedList`, `ItemLists` | the list files and the stack, queue and hash table upon them; the sequences they promise | `MCContainers`, `ContainerProofs` |
| `SearchTree` | `tree/01tree.c` | `MCContainers`, `ContainerProofs` |
| `Calculator` | the two calculators | `MCContainers`, `CalculatorProofs` |
| `Gomoku`, `Recipes` | five in a row; the recipe manager | `MCContainers`, `ContainerProofs` |

Correspondence with the code:

- A variable has the name of the field or global it stands for. Variables marked
  *history* in their comment are read by properties only.
- An action is the stretch of code between two points where another thread or a
  signal can interfere: a lock, an unlock, a semaphore, a system call on shared
  data, an assignment to what a handler also writes. In `ThreadPool` taking the lock
  and the critical section are two steps, because a signal handler may run on a
  thread that holds the lock. In `DataQueue` a producer's critical section is one
  step, the consumer's is not: it takes tokens that producers post without the lock.
- `pthread_cond_wait` gives up the lock and joins the sleepers in one step;
  `signal` wakes any one sleeper, and a bounded number of wake-ups is spurious.
- A handler's body is one step where nothing can interrupt it. `token -= n` and
  `token--` are a load and a store, with handlers in between.
- SEM_UNDO is what the kernel does with it: each process carries its adjustment, and
  its death applies it. Where the code does not pass SEM_UNDO nothing is undone. A
  `semop` can fail, and no caller looks: in `SharedTable` a handler ends the wait
  (EINTR), in `LogPipeline` the adjustment would leave the kernel's range (ERANGE,
  `SEMVMX`). The caller then goes on as if it had been done.
- `pthread_create` may fail wherever it is called. `admin_job` ignores that: `DynPool` counts
  the worker (`uncreated` says how often that happened), leaves its place in the array
  unused or with an id of no thread, and lets the program crash on detaching it.
- In `Gomoku` the board is the array of the code: a pair of coordinates names a byte of it,
  on the board or not (`Names`), and `ifwin` counts from the pair, not from the byte.
- Data is what the properties tell apart: a task is the number of its acceptance,
  a reading the number of its push, a command its number and its units in the
  byte stream, a log line its number and the words it contains, a file the sequence
  of its blocks, a recipe its id, an expression a sequence of tokens.
- Where several programs or copies do the same in different ways, each is a record of
  what it does differently, and a behaviour starts by choosing one: the list files,
  the LogHawks, the cats, the primes, the daemons, the copies of gomoku.
- In `LinkedList` the pointer writes are those of the files. `free` makes a cell's
  links NULL, which is outside the domain of every field, so following one is an
  error; `malloc` may fail and may return any free cell.
- In `SearchTree` a `struct tree_node **` is a place (the variable `tree`, or a side of a
  node) and `child` says what is in it, so grafting and turning are the assignments of the
  code. The recursions and loops that walk down are least sets closed under the links
  (`Below`, `Along`). The students are finitely many; twins with one id differ in the rest.
- `Daemons` keeps the file a name refers to apart from the file a process has open,
  so a lock upon an unlinked file is possible.
- `MCThreadPool`, `MCGateway`, `MCPipelines`, `MCTimers` and `MCContainers` put parts that
  share no state side by side: the variable `running` says which of them runs, the others keep
  one initial state. `AlarmPool` is a real composition, on the state of the pool.

## 3. Runs

| run | instance | shows |
|---|---|---|
| `pool` | gateway's: 3 workers, 2 adders, ring of 2, 5 calls, 1 spurious wake-up; self-sizing: up to 3 workers, minimum 1, steps of 2, ring of 3, 4 tasks, creations that fail | the ring is a FIFO and every task taken is run once (`TasksOnceInOrder`), `NoLostWakeup`, `FreedIsUnused`; every accepted task is run unless destroy comes first (`AcceptedIsRun`), destroy returns (`DestroyReturns`); `QueueIsFifo`, `CountersAgree`, `NeverTooFew`, `AddReturns` |
| `alarm_returns` | alarm as in `timers`, with 1 task and 1 tick | **violated** `HandlerReturns`: the handler waits for a lock held by the thread it interrupted |
| `gateway` | table: 2 writers, 1 reader, 2 slots, 3 calls, kills anywhere, 1 wait ended by a handler; processes: 2 children, commands of 3 units, reads of 4, FIFO of 8, 4 commands; exit: 2 workers, cloud, main, 3 tasks; start: 3 instances, 2 lock files, each program | `ReadsLastStored` (with mutual exclusion and one slot per sensor, until a wait is ended; then what it lets in), `CallsReturn`; `StreamIsOrdered` (commands whole, in order, at most once), `OrphansEnd`; `ExitIsOrderly` (one logger at a time, nothing left when main returns); `OneWorks` |
| `exit_completes` | the exit with 1 task | **violated** `ExitCompletes`: the cloud thread is cancelled inside `write_log` and keeps the mutex |
| `table_lock` | the table of `gateway` | **violated** `OneAtATime`: a client whose wait is ended by a handler is inside beside the holder |
| `dyn_once` | the self-sizing pool with up to 4 workers and 5 tasks | **violated** `RunsTakenTask`: a worker overtaken between signal and wake-up runs an old task |
| `pipelines` | queue: 2 workers, ring of 3, batches of 2, 3 packets (up to 6 readings); LogHawks: 5 lines of every kind, ring of 2, message queue of 1, 1 kill, adjustments of up to 3 (`SEMVMX`), 2 operations refused; primes: 7 to 10, 2 workers; output: 3 writers, files of 2 and 4 blocks, reads of 2, 7 letters | `TokensAndRingAgree`, `BatchesSentInOrder`, `PushedIsTaken`; `LinesAreConserved`, `LogsComeOut`; `PrimesPrintedOnce`; `OutputInOrder` |
| `ai_loghawk` | AI_LogHawk alone, the same bounds | **violated** `WritesWhatWasSent`: the outputer looks for its queue after the daemon has changed the directory |
| `timers` | bucket: capacity 2, rate 2/s, calls up to 1.25 s, clock skews of both signs; alarm: 2 workers, reactor and handler, ring of 2, 2 slots for 3 registrations, 3 ticks; cats: 7 bytes, reads of 3, ticks anywhere; any-timer: 2 slots, 1 and 3 seconds; lines: 2 by 2, 3 signals; library: 2 clients, 1 entry, 2 buckets, 3 calls | `RateBound`, `ServedAtRate`; `HandlerKeepsPool` (the pool's properties, and no handler left in a freed pool), `FiresOnTime`; `CatKeepsRate`, `CatEnds`; `TimersRingInTime`; `LinesAreWhole`; `TokensAccounted`, `FetchersAreServed` |
| `tbf_destroy` | the library, the same bounds | **violated** `NoWildPointer`: the filling thread follows a bucket that was destroyed after it looked |
| `containers` | 3 cells, 2 lists, 3 items (two with one id, all in one bucket); 6 students over 4 ids, two of them with a twin, and `malloc` may refuse; every token sequence of up to 4 and every expression of up to 7 tokens; boards of 3 by 3 with lines of 3 and coordinates from -1 to 3; ids up to 4, lists of 3 | `LinksAgree`, `NothingLeaks`, `ListsAreSequences`; `TreeIsSorted`; `BalanceEnds` (it ends, the tree is then even, and each turn closes in on the middle); `CalculatesValue`; `EndsWithFirstLine`; `IdsAreUnique` |
| `gomoku_draw` | gomoku alone, coordinates from 0 to 3 | **violated** `FiveAlwaysWins`: a line made with the last free point is a draw |

Why these bounds are enough to be interesting. Rings are shorter than the number
of pushes, so indices wrap, and the ring is full and empty several times; there
are more tasks than slots and more workers than tasks at different moments. Two
adders and two or three workers give every overtaking between signal, wake-up and
lock. The self-sizing pool needs a ring longer than its step, as in the code (ten and two):
with a ring of two, two retiring workers use up the signals of two tasks, the full ring
keeps every producer out, and nobody wakes the workers that sleep. In the process pool a read of 4 units cuts commands of 3 units, so a child sees
one command and the beginning of the next. The bucket's delays include ones shorter
than a token takes, and the clock jumps while tokens are missing. The LogHawks have
more lines than blocks, more processors than blocks in the queue, a kill at every
step, and a range of adjustments that the fourth line exceeds; two refusals are enough for one
to cause another. The cats read the last bytes with less than a full buffer, and ticks are
handled at every step; only their count saturates. Three instances are one that
ends, one that has the old file open and one that creates a new file, which is what
the unlink of `06ai.c` needs. A line of three on a board of three can be made in every
direction, and with the last free point; a coordinate one off the board names a byte of
the row before or after. Three cells let a list have a first, a
middle and a last node, and force `malloc` to reuse freed ones. Six nodes are enough
for a turn whose subtree must be turned too, with equal ids on both sides, and for one
that goes too far and must be turned back. A copy of
one calculator has stacks of two, so that they overflow. The programs' own sizes
(15 by 15 with five in a row, buckets of 50, ten blocks) only move the same boundaries.
What is proved (section 5) needs no bounds.

Deadlock is checked in `pool`, `gateway`, `table_lock`, `dyn_once` and `exit_completes`. It is
not in `timers`, where the stuck handler of `alarm_returns` would be reported, nor in
`pipelines` and `containers`, whose programs end, or stop for ever when a process is
killed in the middle or an operation was refused. Bounds (`MaxCalls`, `MaxTicks`, …) are in guards; a
final self-loop stands for a system with nothing left to do.

`ItemLists` is the abstract specification of the lists: each list is a sequence
of items or gone. `ListsAreSequences` says that `LinkedList` implements it, with
the items read along the links as the refinement mapping; TLC checks it on the instance and
`ListsImplementSequences` proves it for any cells, items and buckets.

## 4. Fairness

- Threads and processes that can take a step eventually do (weak fairness per
  thread): the scheduler of the operating system. A task's function is assumed to
  return; those of the gateway contain no unbounded loop.
- Strong fairness where a thread waits for a mutex or a System V semaphore that
  others keep taking: `SemTaken` in `SharedTable` (the kernel serves waiters in
  order of arrival; no handler need ever end a wait), the handler and the threads in `AlarmPool` and `GatewayExit`, and
  the clients of `TbfThreads`, whose rival sleeps for a second between two rounds. It
  makes the two violated liveness properties stronger: they fail although locks are
  granted fairly.
- Interval timers expire: weak fairness of SIGALRM in the cats and in the outputer of
  LogHawk, whose timers repeat.
- Nothing is assumed of callers: `threadpool_add`, `pool_add_task`, packets, kills,
  clock changes, signals from users and destroy may happen or not. The admin thread of
  `DynPool` need not run either, nor need its creations fail or succeed. The log that a collector
  follows need not grow: its reading is the one step of it without fairness. In `LogPipeline` a kill or a
  refused operation excuses what comes after it (`LogsComeOut` is about pipelines in which
  nobody died and the adjustments still fit).

## 5. Proofs

All are checked by TLAPS, for every value of the constants that satisfies the named
assumption of the module. An assumption says that sizes and counts are numbers, that
sets of threads are finite and that names of different things differ, and, where
programs are chosen from a set, what all of them have in common: `LogAssumption` that a
LogHawk with SEM_UNDO has a collector that takes the mutex and that the ring is no longer
than a semaphore counts, `PrimeAssumption` that the
programs are among the six of the repository. TLC evaluates each on the instance it checks.

| theorem | states |
|---|---|
| `ThreadPoolProofs!TypeCorrect` | indices inside the array, `count` at most `queue_size` |
| `ThreadPoolProofs!TasksInOrderOnce` | `TasksOnceInOrder`: the ring is a FIFO of accepted tasks; each taken task is run once |
| `ThreadPoolProofs!WakeupsSuffice` | `NoLostWakeup` |
| `ThreadPoolProofs!FreeIsSafe` | `FreedIsUnused`: nothing is in a freed pool or can enter it |
| `ThreadPoolProofs!HandlerIsHarmless` | `HandlerKeepsPool`: the same with the handler on top of any thread |
| `ThreadPoolProofs!AlarmsDoNotDrift` | `FiresOnTime` for any intervals and ticks |
| `GatewayProofs!ReadsAreCurrent` | `ReadsLastStored`, with mutual exclusion, whoever is killed, until a handler ends a wait for the semaphore; each such wait lets in one more client at most |
| `GatewayProofs!StreamStaysOrdered` | `StreamIsOrdered`: the FIFO keeps order, no command is run twice |
| `GatewayProofs!ExitsInOrder` | `ExitIsOrderly`: one thread in `write_log`, nothing left at the end |
| `GatewayProofs!OnlyOneWorks` | `OneWorks` for any number of instances and kills |
| `PipelineProofs!TokensAgree`, `BatchesInOrder` | `TokensAndRingAgree`; `BatchesSentInOrder` |
| `PipelineProofs!LinesAreKept` | `LinesAreConserved`: each collected line in one place until a kill and, with SEM_UNDO, for the first SEMVMX lines; the mutex has a living holder always |
| `DynPoolProofs!CountersAreRight` | `CountersAgree`: the counters are the workers there are and the creations that failed, and after a failure the pool never grows |
| `DynPoolProofs!EnoughStay` | `NeverTooFew`: MIN_FREE stay by the counter, and of the workers there are that many or, after a failure, MAX_FREE - STEP |
| `DynPoolProofs!TasksAreFifo` | `QueueIsFifo` |
| `TimerProofs!RateIsBounded`, `WaitingIsServed` | `RateBound` and its counterpart `ServedAtRate` |
| `TimerProofs!CatRate` | `CatKeepsRate`: no cat is faster than its ticks |
| `TimerProofs!LinesStayWhole` | `LinesAreWhole`: no handler prints inside a line |
| `TimerProofs!TimersAreOnTime` | `TimersRingInTime` |
| `TimerProofs!BooksBalance` | `TokensAccounted` in the bucket library |
| `ProgramProofs!PrimesComeOutOnce` | `PrimesPrintedOnce` for any range and crew |
| `ProgramProofs!OutputStaysOrdered` | `OutputInOrder` for any file, reads and writers |
| `ContainerProofs!LinksStaySound` | `LinksAgree`: no link into freed memory or another list, ever |
| `ContainerProofs!NothingIsLost` | `NothingLeaks`: the cells of a list are those its ring passes |
| `ContainerProofs!ListsImplementSequences` | `ListsAreSequences`: every list file, stack, queue and hash table implements `ItemLists` |
| `ContainerProofs!TreeStaysSorted` | `TreeIsSorted` for any students, duplicates included |
| `ContainerProofs!BalanceLeavesEven` | `LeftEven`: no uneven node when `tree_balance` has returned |
| `ContainerProofs!TurnsApproachMiddle` | `TurnsCloseIn`: each turn takes one node from above the middle |
| `CalculatorProofs!CalculatorsAreRight` | `CalculatesValue` for any expression and any stack sizes |
| `ContainerProofs!GameEndsWithFirstLine` | `EndsWithFirstLine` on any board, until a coordinate outside it is accepted; a line made with the last free point is excepted from winning |
| `ContainerProofs!RecipeIdsAreUnique` | `IdsAreUnique` |

The arguments, each an inductive invariant:

- *ThreadPool.* `Inv` adds to the properties: `Labels` (which program points a kind of
  thread has), `Mutex` (the holder of the lock is the only thread at a point inside)
  and `Phase` (what is true before create has finished, while destroy joins and after
  the free). `NoLostWakeup` alone is not inductive: that a signal reaches a
  sleeper needs the mutex, and `FreedIsUnused` needs that destroy has joined all.
  Index arithmetic is isolated in `NextSlotWraps` and `AtNextSlot`.
- *AlarmPool.* A step of the composition is a step of the pool, where the lemmas about
  `ThreadPool` apply, or one that leaves the pool alone. `HandlerOnHost` says that
  the handler is in the pool only on a thread that exists and has not ended, and that
  the timer is off and the slots are empty before the pool is destroyed; `FiresOnTime`
  is inductive once slots are known to be taken from the front (`SlotsInOrder`).
- *SharedTable.* `TokenKept` (until a handler ends a wait, the one token is with the semaphore
  or with the client inside, and noted in the adjustment of its process), `UsedFirst` (used slots come before free ones
  and no sensor has two), `SlotFound` (the slot a writer found is its sensor's, or the first
  free one and no other is its sensor's) and `ValuesKept` (the table holds what was
  stored, but for the sensor being written). A kill in the middle of a store keeps all but
  `ValuesKept`, which is about a living gateway. After an interrupted wait only the count is
  kept (`TokensCounted`): tokens and clients inside together are at most one more than the
  waits that were ended, since the unlock of such a client raises the semaphore.
- *ProcessPool.* `Adjacent` (each unit in the FIFO is followed by the next of its command or the
  first of a later one) and `Follow` (the same for units apart, and the FIFO ends with the end of
  a command; nothing not yet submitted was executed).
- *GatewayExit.* `LogIsOnes` (whoever is inside `write_log` holds the mutex) and `Phases`
  (what main has stopped and joined by each of its program points).
- *Daemons.* `HoldersHold` (past the lock, an instance holds the file it opened), `OneFile`
  (where nobody unlinks, only one file is ever created) and `PidIsHolders`.
- *DataQueue.* `TokensMatchReadings` counts tokens in three places (semaphore, producers
  between push and post, the consumer's claim); with `RingIsFifo` it shows that a
  token taken means a reading present, which the code never tests. `Consumer` ties the
  consumer's program point to the lock and to the batch.
- *LogPipeline.* `LogInv` is `LogTypes`, `Undoes` and, until a kill, `Books`. `Undoes`: a
  process has an adjustment of one for the mutex exactly while it holds it, so the kernel
  gives back what is held and nothing else. `Books`: free, claimed, unread and
  about to be returned blocks make up the ring, and each line counts once. That a claimed
  block is not unread, so that a write overwrites nothing, is in the first equation; that a
  read finds a line is in `Unread >= 1`. Each of the six places of a line is a finite set
  with a lemma for one line put in and one for a line taken out. That no operation is refused
  before the collector has SEMVMX lines is `Ranges`: its adjustments of space and data never
  exceed the lines collected, and a processor never has to give back more than the data it
  took. `Undoes` needs no such bound, as P and V of the mutex alternate.
- *DynPool.* The counters are kept under different locks; the invariant relates them to
  sets of program points, with cardinality lemmas for one thread moving, and one for the workers
  that a round of the admin thread creates and those it only counts. Once a creation has
  failed, busy workers stay fewer than live_threads, so that no second round can fail: the
  failures are at most STEP. `EnoughStay` follows since only open requests let a worker leave. For the FIFO, `Ring` relates
  indices, count and content, and `TasksBounded` the tasks added to the producers.
- *TokenBucket.* `RateBound` carries the tokens left, so that refilling trades
  allowance for tokens; `ClockInv` says that the last refill is not in the future
  unless the clock was set back. Products are handled by three small lemmas.
- *SlowCat.* `Credit`: bytes written, bytes in hand and tokens together are at most what the ticks
  allow. It needs `TakesWhatIsThere`: between its load and its store the bucket can only have
  grown, so the store loses refills and never makes tokens.
- *SignalLines.* `Blocked` (from the start of a line up to sigsuspend, what the program
  handles is masked) and `OnlyHandled` (nothing else can be pending).
- *AnyTimer.* `Serves` relates a slot's countdown to the age of its request, for each
  slot that is not between the two assignments of `Removing`.
- *TbfThreads.* `Balanced`: per bucket, tokens and what was fetched come from fills and returns.
  It survives the use of a freed bucket, which `tbf_destroy` shows.
- *PrimePools.* `Printing` (a number is printed once and only when nobody will test it again, and
  all primes among those are, if nothing was lost), `Allotted` (how far each owner of numbers
  given beforehand has come), and for shared numbers `Locked`, `JobInv` and `Sharing` (no two
  workers carry the same one, and nobody ends before all are taken).
  That the trial division decides primality is proved from the least divisor.
- *OrderedOutput.* One invariant per way of ordering: `ChainInv` (at most one
  writer is in front, those after it have not begun, the output is what precedes its place),
  `MutexInv` (whoever reads or writes is inside; the output is what was read but for the buffer
  about to be written) and `TurnInv` (the thread whose turn it is does not sleep).
- *LinkedList.* `ListInv` is `Sound` (`LinksAgree` for any heap), `Rooted` (a head is
  in its own list only) and `OnVictim` (the loop of destroy stands on a cell of the list
  it destroys). `LinkGood` and `UnlinkGood` show once that the pointer writes of
  insert and delete keep a heap good, wherever they are applied; replacement applies
  both, with the cell just freed possibly the new one. A search stays in its list
  because the cells a list owns are closed under `next` (`FoundIsOwned`).
- *LinkedList, leaks and refinement.* Soundness does not exclude a second ring that no head
  reaches. `RingInv` adds a witness: the cells of each list in use are a sequence without
  repetition that the links run through from the head and back (`IsRing`). Inserting puts a cell
  into the sequence, deleting cuts one out, destroying drops the first, and the sequences of
  the other lists stay (`Edited`). So nothing can leak, and a list that is gone keeps only what
  `Kept` names. A search finds the first place of the sequence whose item matches, by
  `LeastNumber`. The refinement maps a list in use to the items of its sequence: each call is
  one step of `ItemLists` (`CallStep`), the beginning of a destroy is its `Drop`, and the
  steps that free cells change nothing a caller sees. It assumes finitely many cells and that
  `Gone` is not a sequence of items.
- *SearchTree.* `IsTree` numbers the nodes from left to right: `pos` is a node's number, `lo` and
  `hi` bound the numbers of what hangs from it. What is below a place is then an interval
  (`BelowIs`), sorted means that ids ascend with the numbers, and a loop that walks
  down ends where an interval becomes empty. Turns and grafts keep `pos` and change `lo` and `hi`
  of a few nodes; inserting doubles the numbers to make room for one more. `TreeInv` adds that each
  id is there as often as it was stored. `EvenInv`: while balancing, every uneven node
  is below a place still to visit; a turn works within its place and neither moves nor
  recounts the nodes outside it. For `TurnsCloseIn` a median is found by a least number,
  and a turn takes exactly the turned node from above it.
- *Calculator.* The reference `Meaning` is a recursive function over spans of tokens, so its
  equation has to be earned: `MeaningIs` shows that a function that obeys it exists, since the
  shortest span on which every candidate fails cannot exist. `Computes` says of a piece of
  output that, on top of any number stack, it runs until its meaning is pushed or a division by
  zero stops it; two such pieces and an operator make a third (`BinaryComputes`). `Left` says
  of a span that it put out Q and left the operators W on the stack, that Q followed by
  W popped computes what the span means, and that each operator of W binds at least as tightly
  as one outside the span's parentheses. That is what the next operator, or the right
  parenthesis, needs in order to pop exactly W (`PopsToWeaker`, `PopsToParen`). `SpansConvert`
  proves it of every span by the shortest one that could fail: a number, a span in
  parentheses, or two operands around the last operator of lowest priority (`SplitConverts`).
  `CalcInv` has the stacks and the output of the turns made so far as witnesses while
  converting (`Converting`), and the number stacks of the tokens read so far
  while evaluating (`Evaluating`); both are stated while no push was dropped.
- *Gomoku.* The property is inductive by itself. While the coordinates are on the board, each
  byte is named by one pair only (`OwnByte`, from the division in `FlatIndex`), so that what
  `ifwin` counts is the row of stones on the board (`Row`, `Through`). A line that was not
  there before goes through the last stone, and the two counts from that stone cover it: how
  far a run reaches is a least number.
- *Recipes.* `Fresh`: ids are distinct and below `next_id`, in the list and in the file.

Only model-checked is *liveness*, which the prover does not handle: `AcceptedIsRun`,
`DestroyReturns`, `CallsReturn`, `OrphansEnd`, `AddReturns`, `PushedIsTaken`, `LogsComeOut`,
`CatEnds`, `FetchersAreServed`, and of `BalanceEnds` the part that says that balancing
ends. Its other two parts are `BalanceLeavesEven` and `TurnsApproachMiddle`, and the latter
is why it ends.

Type correctness is part of each proved invariant.

## 6. What the code does not promise

The seven violations are listed with their lines under "findings" in `PROJECT.json`.
Beyond them the following was met while modelling; where a property holds only with
an exception, the exception is a named part of it.

- `threadpool_destroy` does not run the tasks still queued (`thread_pool.h` line 36);
  `AcceptedIsRun` says so.
- A batch whose connection fails is not sent again (`BatchesSentInOrder` only keeps
  order). Two workers may update the table in the opposite order of their pushes,
  so the table may keep the older of two readings.
- A clock set back stops refilling the bucket until it has caught up; hence the
  condition of `ServedAtRate`.
- Nobody looks at the result of `semop`. In the shared table a wait that a handler ends leaves
  one token too many behind for good (`table_lock`); what a read returns is then open, as is
  which of the two clients wrote the slot, and `ReadsLastStored` claims only how many can be
  inside. In LogHawk and LogHawk_2 the collector's P of space and V of data go one way, so that
  after about 32767 lines their SEM_UNDO adjustments are full and the kernel refuses them:
  blocks are overwritten before they were read, lines are no longer counted as data, and a
  processor whose own operation is refused reads a block again. `LinesAreConserved` and
  `LogsComeOut` end there; the number of refused operations is bounded (`MaxRefused`) because
  from then on there is no end of them.
- SIGTERM ends the gateway with `exit(0)`: the FIFO and the System V objects stay, and a
  slot of the table may be half written.
- A read that returns two commands runs only the first. Without `-d` nobody
  reaps the children while the gateway lives.
- `DynPool`: signals to workers that are not waiting yet are lost while
  `exit_threads` stays set, and a task added then may lie until the next one
  comes; destroy frees the pool after a second, whatever the workers do. A creation that
  fails is counted as a live worker, so that the pool never grows again, however busy it is;
  detaching the id of no thread is undefined, and may end the program. With other limits
  than the code's (MAX_FREE < MIN_FREE + STEP) all workers may then leave; hence the last
  exception of `AddReturns`.
- `apue/05daemon/06ai.c` unlinks its lock file at the end. An instance that opened it
  before gets its lock after, and another instance that creates the file anew has a
  lock of its own: both work. `OneWorks` allows two holders there, one per file. The
  programs that truncate and keep the file have one holder in every interleaving.
- A process of LogHawk that is killed takes a block or a message with it, and SEM_UNDO
  also takes back the counts of what it finished long before. `LinesAreConserved` is
  about lines while nobody has died; after a kill it claims only that the mutex has a
  living holder or is free, and that only where SEM_UNDO is passed (not in
  AI_LogHawk).
- `LogHawk/outputer.c` and the cats may lose a refill to `token--` or `token -= n`: they
  are then slower than the rate, never faster, and go on with the next tick.
- The prime program that leaves its loop too early (`apue/02few/07prime.c`) prints
  squares of primes as well; `PrimesPrintedOnce` states what each program takes for
  a prime.
- Gomoku looks for a full board before it looks for a line (`gomoku_draw`). It does not ask
  whether coordinates are on the board: (1,16) sets the stone of (2,1), and the lines are
  counted from row 0, column 15. The model follows every such move whose byte lies in the
  array, and a byte outside that a count reads may show anything; what a stone outside the
  array overwrites is not followed. `EndsWithFirstLine` is about games without such a move.
- The recipe manager that loads an empty file keeps its list but not `next_id`, and
  gives ids a second time; `IdsAreUnique` excepts that history. A save cut short by a kill
  leaves a file whose counts are read uninitialised.
- `lib1`'s `list_destroy` keeps one node, `queue_distroy` an empty queue
  (`NothingLeaks` names both). `list/twowaylopplist` follows NULL when it fetches what is
  not there, and `lib1` and `twowaylopplist` link a freed node on an unknown mode; the
  model leaves those calls out. `stack_push` reports success when malloc failed.
- Expressions deeper than the stacks may get a wrong value, and `05test` looks for
  ever at a parenthesis that is never closed; `CalculatesValue` excludes both. The line
  `main` reads and the buffer for the converted text both have 32 characters, but the
  converted text takes a blank after each token, and an `int` may overflow: the model has
  neither limit, so `CalculatesValue`, proved for every expression, speaks of those that
  fit both.

Assumed of the environment: `sem_wait` of the cloud thread is not ended by a signal (SIGALRM is
installed with SA_RESTART, and SIGHUP, whose handler lacks it, is taken to go to the main thread).
`semop` is never restarted after a handler, with SA_RESTART or without, which is why `SharedTable`
has it fail; the processes of LogHawk that call `semop` install no handlers, and stopping and
continuing them from outside is not modelled. The rounding of `double` in the bucket is left out;
writes to a terminal or a file are complete.

## 7. Not modelled, and what comes next

Not modelled, with the reason:

- *Pure functions and input or output around library calls*: base64, the file copies,
  `cat`, `ls`, `stat`, `touch`, `du`, `passwd`, the socket pairs of `apue`, and the
  examples of a single call in `apue` and `ipc`. They keep no state between two calls
  and share none.
- *Containers of a kind that is modelled already*: array stacks and rings, singly linked
  and headless lists, Joseph, Hanoi; their drivers insert constants and print.
- *One-page exercises* on the C language.
- *What does not compile*: `NB666` (a draft of the gateway), `queue/04queue`,
  `apue/pthread/08prime_cond.c`, `apue/signal/05alarm.c`, `recipe_bcl`, `ipc/7homework.c`.
- *Parts of modelled programs*: each component's note in `PROJECT.json` says which.

Next, in order of importance:

1. `ThreadPool` and `DataQueue` as implementations of one abstract queue.
2. The fsm relay with partial writes and EAGAIN; the base64 arithmetic.
