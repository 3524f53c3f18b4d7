--------------------------- MODULE MCCommandQueue ---------------------------
(***************************************************************************)
(* CommandQueue on a small instance: one application thread that uses      *)
(* EngineHandler::send_command and shutdown, the acceptor thread, and the  *)
(* loop itself, with the capacity and batch limits brought down to one or  *)
(* two, so that both are met.                                              *)
(***************************************************************************)
EXTENDS CommandQueue, TLC

CONSTANTS app, acceptor

MCIssues ==
  (app :> {"AsyncWrite", "Close", "Shutdown"})
    @@ (acceptor :> {"Register"})
    @@ (Loop :> {"Read", "Wake"})

MCMaxCmds == (app :> 2) @@ (acceptor :> 1) @@ (Loop :> 1)
=============================================================================
