---------------------------- MODULE MCAsyncReply ----------------------------
(***************************************************************************)
(* AsyncReply with two loops, whose threads are l0 and l1, one pool and    *)
(* channels of capacity one.                                               *)
(***************************************************************************)
EXTENDS AsyncReply

CONSTANTS l0, l1, p, a, b

MCClients == {l0, l1}

MCLoopOf == [i \in Loops |-> IF i = 0 THEN l0 ELSE l1]

MCHome == [x \in Conns |-> IF x = b THEN 1 ELSE 0]

MCMaxTasks == [t \in Threads |-> IF t \in Clients THEN 4 ELSE 0]

(* Bound of the model: one connection with up to four requests for the     *)
(* echo, so that its loop blocks while the worker answers; a member on     *)
(* each loop, with two messages and one, for the chat room.  Requests and  *)
(* connections do not have to come, so this restricts no fairness.         *)
Bounded ==
  \/ example = "echo" /\ state'[b] = "new"
  \/ example = "chat" /\ asked'[a] <= 2 /\ asked'[b] <= 1

MCSpec == RInit /\ [][RNext /\ Bounded]_rvars /\ RFairness
=============================================================================
