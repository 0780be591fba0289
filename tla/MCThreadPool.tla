---------------------------- MODULE MCThreadPool ----------------------------
(***************************************************************************)
(* The two thread pools, one of which runs: the gateway's, of fixed size,  *)
(* and the one that changes its size.  The state of the other does not     *)
(* change.                                                                 *)
(***************************************************************************)
EXTENDS ThreadPool, DynPool

CONSTANTS w1, w2, w3, a1, a2, p1

VARIABLE running

poolVars == <<running, vars, dynVars>>

ThreeWorkers == {w1, w2, w3}
TwoAdders == {a1, a2}
OneProducer == {p1}

PoolInit == running \in {"fixed", "sizing"} /\ Init /\ DynInit

InFixed(A) == running = "fixed" /\ A /\ UNCHANGED <<running, dynVars>>
InSizing(A) == running = "sizing" /\ A /\ UNCHANGED <<running, vars>>

PoolNext == InFixed(Next) \/ InSizing(DynNext)

(* The fairness of FairSpec and of DynFairSpec. *)
PoolSpec ==
  /\ PoolInit /\ [][PoolNext]_poolVars
  /\ \A w \in Workers : WF_poolVars(InFixed(WorkerStep(w)))
  /\ \A a \in Adders : WF_poolVars(InFixed(AddStep(a)))
  /\ WF_poolVars(InFixed(OwnerStep))
  /\ \A w \in Places : WF_poolVars(InSizing(InUse /\ worker_job(w)))
  /\ \A p \in Producers : WF_poolVars(InSizing(InUse /\ ppc[p] = "retry" /\ (AddWait(p) \/ Add(p))))
=============================================================================
