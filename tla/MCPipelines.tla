----------------------------- MODULE MCPipelines -----------------------------
(***************************************************************************)
(* Programs that hand work from one process or thread to the next, one of  *)
(* which runs: the gateway's reading queue, the LogHawk pipelines, the     *)
(* prime programs, and the programs that write one output in order.        *)
(***************************************************************************)
EXTENDS DataQueue, LogPipeline, PrimePools, OrderedOutput

CONSTANTS p1, p2

VARIABLE running

pipeVars == <<running, vars, logVars, primeVars, outputVars>>

TwoProducers == {p1, p2}

(* A line that matches two words, a blank one, and one that matches none; *)
(* a version with SEM_UNDO collects one line more than SEMVMX.             *)
SomeLog == <<{"error", "warn"}, {}, {"kernel"}, {"other"}, {"warn"}>>

(* The buckets are scaled down: 10 and 50 tokens become 1 and 2. *)
SmallBucket(h) == [h EXCEPT !.outputer.token = 0, !.outputer.cps = 1, !.outputer.burst = 2]
OnlyAI == {[SmallBucket(AI_LogHawk) EXCEPT !.main.processor_cnt = 2]}
SmallHawks == {SmallBucket(LogHawk), SmallBucket(LogHawk_2)} \cup OnlyAI

AllPrimePrograms == {fork_each, thread_each, prime_con, prime_sem, prime_mutex}
ThreePrograms == {mycat_chain, mycat_mutex, letters}

(* What does not run has one initial state. *)
PipeInit ==
  /\ running \in {"queue", "hawk", "primes", "output"}
  /\ Init /\ LogInit /\ PrimeInit /\ OutputInit
  /\ running # "hawk" => hawk = CHOOSE h \in Hawks : TRUE
  /\ running # "primes" => pprog = fork_each
  /\ running # "output" => oprog = letters
  /\ (running # "output" \/ oprog = letters) => total_size = CHOOSE n \in Sizes : TRUE

InQueue(A) == running = "queue" /\ A /\ UNCHANGED <<running, logVars, primeVars, outputVars>>
InHawk(A) == running = "hawk" /\ A /\ UNCHANGED <<running, vars, primeVars, outputVars>>
InPrimes(A) == running = "primes" /\ A /\ UNCHANGED <<running, vars, logVars, outputVars>>
InOutput(A) == running = "output" /\ A /\ UNCHANGED <<running, vars, logVars, primeVars>>

PipeNext == InQueue(Next) \/ InHawk(LogNext) \/ InPrimes(PrimeNext) \/ InOutput(OutputNext)

(* Threads and processes that can run do run, and timers expire.  The log  *)
(* may stop growing at any line.                                           *)
PipeSpec ==
  /\ PipeInit /\ [][PipeNext]_pipeVars
  /\ WF_pipeVars(InQueue(Cloud)) /\ \A p \in Producers : WF_pipeVars(InQueue(Task(p)))
  /\ WF_pipeVars(InHawk(collector /\ line' = line)) /\ WF_pipeVars(InHawk(outputer)) /\ WF_pipeVars(InHawk(sigalrm_handler))
  /\ \A p \in {1, 2} : WF_pipeVars(InHawk(processor(p)))
=============================================================================
