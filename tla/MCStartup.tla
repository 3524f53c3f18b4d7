----------------------------- MODULE MCStartup -----------------------------
(***************************************************************************)
(* Startup on small instances: words of four bits, four cpus and lists of  *)
(* one to three addresses.                                                 *)
(***************************************************************************)
EXTENDS Startup

Text(scheme, host, port) ==
  [scheme |-> scheme, body |-> [host |-> host, port |-> port]]

MCHosts == {"0.0.0.0", "127.0.0.1"}

Local == Text("tcp", "127.0.0.1", 80)
Implicit == Text("tcp4", "", 80)
Other == Text("tcp", "127.0.0.1", 81)
Path == Text("unix", "/tmp/a.sock", NoPort)
Path2 == Text("unix", "/tmp/b.sock", NoPort)
Udp == Text("udp", "127.0.0.1", 80)

MCLists ==
  {<<Local>>, <<Local, Other>>, <<Implicit, Local>>, <<Path>>, <<Path, Path2>>,
   <<Path, Other>>, <<Other, Path>>, <<Path, Path>>,
   <<Text("tcp", "", NoPort)>>, <<Text("tcp", "/tmp/a.sock", NoPort)>>,
   <<Text("none", "127.0.0.1", 80)>>, <<Local, Udp>>}

Cpu(socket, core) == [socket |-> socket, core |-> core]

(* Two hyper-threaded cores; two packages of two cores; no files at all.   *)
MCTopologies ==
  {[c \in 0..3 |-> Cpu(0, c \div 2)],
   [c \in 0..3 |-> Cpu(c \div 2, c % 2)],
   [c \in 0..3 |-> Cpu(Unreadable, Unreadable)]}

MCCpus == <<0, 1, 2, 3>>

Offered(f) ==
  CASE f \in {"reuse_addr", "reuse_port"} -> BOOLEAN
    [] f = "num_event_loop" -> {2, 3}
    [] f = "write_buffer_cap" -> {0, 5, 12}
    [] OTHER -> 0..15

MCOffer ==
  [f \in {"reuse_addr", "reuse_port", "num_event_loop"} \cup Sizes |->
     Offered(f)]

(* Bound of the model: nothing after build looks at the sizes, so they are *)
(* varied, over two builds, in programs that get no further than that, and *)
(* the other settings in programs that leave the sizes alone.              *)
Bounded ==
  \/ DOMAIN asked' \subseteq Sizes
       /\ phase' \in {"configure", "built", "panicked"}
  \/ DOMAIN asked' \cap Sizes = {} /\ base' = DefaultOptions

MCSpec == Init /\ [][Next /\ Bounded]_vars
=============================================================================
