---------------------------- MODULE MCEventLoop ----------------------------
(***************************************************************************)
(* EventLoop on small instances: connections one after the other in a      *)
(* single slot, connections side by side in two slots, and one connection  *)
(* with much traffic.                                                      *)
(***************************************************************************)
EXTENDS EventLoop, TLC

CONSTANTS s1, s2, k0, k1, k2

Symmetry == Permutations({s1, s2}) \cup Permutations({k1, k2})

AnyPeer == {"sends", "closes", "resets", "blocks", "interrupts"}

(* One slot: a handler that rejects, answers and closes connections, and   *)
(* closes once more in on_close as examples/chat-room.rs does.             *)
OneSlot ==
  [keys |-> {k0},
   callbacks |->
     [on_open |-> {"write", "Close"},
      on_traffic |-> {"write", "Close", "Shutdown"},
      on_close |-> {"close"}, on_tick |-> {}],
   app_ops |-> {"AsyncWrite"}, peer |-> AnyPeer, reuse_port |-> FALSE,
   max_queue |-> 2]

(* Two slots: a ticker that writes to every connection, a farewell in      *)
(* on_close, and handlers that end the loop.                               *)
TwoSlots ==
  [keys |-> {k1, k2},
   callbacks |->
     [on_open |-> {"Shutdown"}, on_traffic |-> {"close"},
      on_close |-> {"write"}, on_tick |-> {"write", "Shutdown"}],
   app_ops |-> {"Close", "Shutdown"}, peer |-> {"sends", "blocks"},
   reuse_port |-> TRUE, max_queue |-> 1]

SlotScenes == {OneSlot, TwoSlots}

(* One connection: a handler that answers what it reads.                   *)
Traffic ==
  [keys |-> {k0},
   callbacks |->
     [on_open |-> {}, on_traffic |-> {"write"}, on_close |-> {},
      on_tick |-> {}],
   app_ops |-> {"AsyncWrite"}, peer |-> AnyPeer, reuse_port |-> FALSE,
   max_queue |-> 2]

TrafficScenes == {Traffic}
=============================================================================
