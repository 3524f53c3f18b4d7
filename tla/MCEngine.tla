------------------------------ MODULE MCEngine ------------------------------
(***************************************************************************)
(* Engine with two loops, so that one can end while another goes on.       *)
(***************************************************************************)
EXTENDS Engine

CONSTANTS a, b, t1, t2

Scene(reuse, lb, faults, peers, who) ==
  [reuse_port |-> reuse, lb |-> lb, faults |-> faults, peers |-> peers,
   callers |-> who]

(* Two peers, a shutdown, and an acceptor that may fail; two shutdowns     *)
(* while anything may fail, without and with a peer; both with reuse_port; *)
(* two peers for LeastConnections; the policy that does not exist.         *)
MCScenes ==
  {Scene(FALSE, "RoundRobin", {"poll", "accept"}, {a, b}, {t1}),
   Scene(FALSE, "RoundRobin", Failures, {}, {t1, t2}),
   Scene(FALSE, "RoundRobin", Failures, {a}, {t1}),
   Scene(TRUE, "RoundRobin", Failures, {a, b}, {t1}),
   Scene(FALSE, "LeastConnections", {}, {a, b}, {}),
   Scene(FALSE, "SourceAddrHash", {}, {}, {})}
=============================================================================
