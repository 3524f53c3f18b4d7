---------------------------- MODULE MCWorkerPool ----------------------------
(***************************************************************************)
(* WorkerPool with channels of capacity one, a client, and tasks that      *)
(* submit on both workers of pool p: enough calls for a task to wait for   *)
(* its own worker and for two tasks to wait for each other's.              *)
(***************************************************************************)
EXTENDS WorkerPool

CONSTANTS c1, p, q

MCNested == {<<p, 0>>, <<p, 1>>}

MCMaxTasks ==
  [t \in Threads |-> CASE t \in Clients -> 3
                       [] t = <<p, 0>>  -> 2
                       [] t = <<p, 1>>  -> 1
                       [] OTHER         -> 0]

(* At most one task, of worker 0, has called submit.                       *)
OneNestedCall == calls[<<p, 0>>] <= 1 /\ calls[<<p, 1>>] = 0

(* The client's calls have gone to worker 0, worker 0 and worker 1.        *)
ClientPattern ==
  \A task \in accepted[p] \cup {InHand(t) : t \in {u \in Clients : at[u] # "out"}} :
    task.by = c1 => task.shard = IF task.n = 3 THEN 1 ELSE 0

(* Bound of the model: there is a second pool, or a third call by the      *)
(* client, but not both; and tasks submit more than that only with one     *)
(* pool, without panics, and after the client's calls of ClientPattern.    *)
(* What this cuts off are calls of submit and new and panics, none of      *)
(* which has to happen, so it restricts no fairness.                       *)
Bounded ==
  IF OneNestedCall
  THEN stage[q] = "none" \/ calls[c1] < 3
  ELSE /\ stage[q] = "none"
       /\ \A w \in WorkerIds : worker[w] # "panicked"
       /\ ClientPattern

MCSpec == Init /\ [][Next /\ Bounded']_vars /\ Fairness
=============================================================================
