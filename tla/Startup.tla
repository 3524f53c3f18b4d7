------------------------------ MODULE Startup ------------------------------
(***************************************************************************)
(* From the options to listening sockets: OptionsBuilder, the parsing of   *)
(* addresses in Options::normalize, the choice of cores, and the binding   *)
(* of the listeners by the acceptor or by each loop, with what an earlier  *)
(* run of the program leaves behind: socket files, and connections that    *)
(* the kernel still holds in TIME_WAIT.  Engine.tla takes over where this  *)
(* module ends.                                                            *)
(***************************************************************************)
EXTENDS Naturals, SequencesExt, FiniteSetsExt

CONSTANTS
  WordBits,             \* the width of usize
  DEFAULT_BUFFER_SIZE,  \* the least buffer capacity (1024)
  MAX_STREAM_BUFFER_CAP,\* the default buffer capacity (64 KiB)
  DefaultBatch,         \* the default of max_batch_size (1 << 20)
  Offer,                \* Offer[f]: the values setter f is called with
  Hosts,                \* IP addresses as text, "0.0.0.0" among them
  Lists,                \* the address lists normalize is called with
  Cpus,                 \* core_affinity::get_core_ids()
  Topologies,           \* what /sys may say of these cpus
  MaxBuilds,            \* bound of the model: passes through the builder
  MaxRuns               \* bound of the model: starts of the program

Sizes == {"read_buffer_cap", "write_buffer_cap", "max_batch_size"}

(* The values of a usize.                                                  *)
Words == 0..(2 ^ WordBits - 1)

IsPowerOfTwo(n) == \E i \in 0..(WordBits - 1) : n = 2 ^ i

ASSUME StartupAssumption ==
  /\ WordBits \in Nat \ {0}
  /\ \A n \in {DEFAULT_BUFFER_SIZE, MAX_STREAM_BUFFER_CAP, DefaultBatch} :
       n \in Nat /\ 2 <= n /\ IsPowerOfTwo(n)
  /\ DEFAULT_BUFFER_SIZE <= MAX_STREAM_BUFFER_CAP
  /\ \A f \in DOMAIN Offer \cap (Sizes \cup {"num_event_loop"}) :
       Offer[f] \subseteq Words
  /\ Cpus \in Seq(Nat)
  /\ \A t \in Topologies : \A i \in DOMAIN Cpus :
       t[Cpus[i]] \in [socket : Nat, core : Nat]
  /\ MaxBuilds \in Nat /\ MaxRuns \in Nat

(* The powers of two grow; arithmetic the provers have no rule for.        *)
ASSUME PowersGrow ==
  /\ \A i \in 0..WordBits : 2 ^ i \in Nat \ {0}
  /\ \A i, j \in 0..WordBits : i < j => 2 ^ i < 2 ^ j

VARIABLES
  phase,   \* how far the program has come
  asked,   \* OptionsBuilder: the settings that are Some
  base,    \* OptionsBuilder: base_options
  builds,  \* calls of build so far
  opts,    \* the Options
  texts,   \* the addresses as given to normalize
  addrs,   \* ... and as parsed
  topo,    \* topo[c]: the topology files of cpu c
  cores,   \* the cores run starts loops on
  todo,    \* the listeners still to be bound
  held,    \* the listeners the program has
  file,    \* file[p]: the socket file at path p and whose it is
  linger,  \* TCP addresses with connections in TIME_WAIT
  runs     \* starts so far

config == <<asked, base, builds, opts>>
input == <<texts, addrs, topo>>
kernel == <<held, file, linger>>
vars == <<phase, config, input, cores, todo, kernel, runs>>

-----------------------------------------------------------------------------
(* Options and their builder.                                              *)

DefaultOptions ==
  [lb |-> "RoundRobin", reuse_addr |-> FALSE, reuse_port |-> FALSE,
   bind_to_device |-> "", num_event_loop |-> 0,
   read_buffer_cap |-> MAX_STREAM_BUFFER_CAP,
   write_buffer_cap |-> MAX_STREAM_BUFFER_CAP,
   lock_os_thread |-> FALSE, ticker |-> FALSE,
   tcp_keepalive |-> "None", tcp_keep_interval |-> "None",
   tcp_keep_count |-> "None", tcp_no_delay |-> "NoDelay",
   socket_recv_buffer |-> 0, socket_send_buffer |-> 0,
   max_batch_size |-> 0, log_path |-> "None", log_level |-> "Info"]

Settings == DOMAIN DefaultOptions

(* usize::next_power_of_two; without overflow checks it wraps to zero.     *)
NextPowerOfTwo(n) ==
  (2 ^ Min({i \in 0..WordBits : 2 ^ i >= n})) % 2 ^ WordBits

ceil_to_power_of_two(n) == IF n <= 2 THEN 2 ELSE NextPowerOfTwo(n)

Overflows(n) == n > 2 ^ (WordBits - 1)

(* Variant with a fault: a power of two is taken to the next one.          *)
CeilAbove(size) ==
  IF size = 0 THEN MAX_STREAM_BUFFER_CAP
  ELSE IF size <= DEFAULT_BUFFER_SIZE THEN DEFAULT_BUFFER_SIZE
  ELSE ceil_to_power_of_two((size + 1) % 2 ^ WordBits)

normalize_buffer_size(size) ==
  IF size = 0 THEN MAX_STREAM_BUFFER_CAP
  ELSE IF size <= DEFAULT_BUFFER_SIZE THEN DEFAULT_BUFFER_SIZE
  ELSE ceil_to_power_of_two(size)

(* What the setters were given, over base_options or the defaults.         *)
Requested ==
  [f \in Settings |-> IF f \in DOMAIN asked THEN asked[f] ELSE base[f]]

Set(f, v) ==
  /\ phase = "configure"
  /\ asked' = [g \in DOMAIN asked \cup {f} |-> IF g = f THEN v ELSE asked[g]]
  /\ UNCHANGED <<phase, base, builds, opts, input, cores, todo, kernel, runs>>

Build ==
  /\ phase = "configure"
  /\ phase' = "built"
  /\ builds' = builds + 1
  /\ opts' =
       [Requested EXCEPT
          !.max_batch_size = IF @ > 0 THEN ceil_to_power_of_two(@)
                                      ELSE DefaultBatch,
          !.read_buffer_cap = normalize_buffer_size(@),
          !.write_buffer_cap = normalize_buffer_size(@)]
  /\ UNCHANGED <<asked, base, input, cores, todo, kernel, runs>>

(* With overflow checks next_power_of_two panics.                          *)
BuildPanics ==
  /\ phase = "configure"
  /\ \E f \in Sizes : Overflows(Requested[f])
  /\ phase' = "panicked"
  /\ UNCHANGED <<config, input, cores, todo, kernel, runs>>

(* A new builder that starts from the Options another one made.            *)
with_options ==
  /\ phase = "built"
  /\ builds < MaxBuilds
  /\ phase' = "configure"
  /\ base' = opts
  /\ asked' = <<>>
  /\ UNCHANGED <<builds, opts, input, cores, todo, kernel, runs>>

-----------------------------------------------------------------------------
(* Addresses.  A text is a scheme and a body; a body is a host and a port, *)
(* or something that is not (a path), or nothing at all.                   *)

NoPort == 65536
NoBody == [host |-> "", port |-> NoPort]
Unspecified == "0.0.0.0"
Invalid == [kind |-> "error"]

(* The body of a TCP address: a missing host stands for all interfaces.    *)
SocketAddr(body) ==
  [body EXCEPT !.host = IF @ = "" THEN Unspecified ELSE @]

from_str(t) ==
  CASE t.body = NoBody -> Invalid
    [] t.body # NoBody /\ t.scheme \in {"tcp", "tcp4", "tcp6"} ->
         IF SocketAddr(t.body).host \in Hosts /\ t.body.port < NoPort
         THEN [kind |-> "tcp", at |-> SocketAddr(t.body)]
         ELSE Invalid
    [] t.body # NoBody /\ t.scheme = "unix" -> [kind |-> "unix", at |-> t.body]
    [] OTHER -> Invalid

Parsed(list) == [i \in DOMAIN list |-> from_str(list[i])]

HasUnix(as) == \E i \in DOMAIN as : as[i].kind = "unix"

(* Variant with a fault: only the last address counts.                     *)
NormalizeLast(list) ==
  /\ phase = "built"
  /\ texts' = list
  /\ addrs' = Parsed(list)
  /\ phase' = "ready"
  /\ opts' = [opts EXCEPT !.reuse_port =
                @ /\ (list = <<>> \/ Last(addrs').kind # "unix")]
  /\ UNCHANGED <<asked, base, builds, topo, cores, todo, kernel, runs>>

(* Options::normalize; the first bad address ends it, and with its         *)
(* `unwrap` the program.                                                   *)
normalize(list) ==
  /\ phase = "built"
  /\ texts' = list
  /\ IF \E i \in DOMAIN list : from_str(list[i]) = Invalid
     THEN phase' = "rejected" /\ UNCHANGED <<addrs, opts>>
     ELSE /\ phase' = "ready"
          /\ addrs' = Parsed(list)
          /\ opts' = [opts EXCEPT !.reuse_port = @ /\ ~HasUnix(Parsed(list))]
  /\ UNCHANGED <<asked, base, builds, topo, cores, todo, kernel, runs>>

-----------------------------------------------------------------------------
(* Cores.  A topology file may be missing; the package is then taken to be *)
(* the first one and the core to have the number of the cpu.               *)

Unreadable == 99

(* Variant with a fault: the package is not part of the key.               *)
CoreIdOnly(cpu) ==
  [socket |-> 0,
   core |-> IF topo[cpu].core = Unreadable THEN cpu ELSE topo[cpu].core]

get_linux_topology_key(cpu) ==
  [socket |-> IF topo[cpu].socket = Unreadable THEN 0 ELSE topo[cpu].socket,
   core |-> IF topo[cpu].core = Unreadable THEN cpu ELSE topo[cpu].core]

KeysOf(cpus) == {get_linux_topology_key(cpus[i]) : i \in DOMAIN cpus}

(* A cpu is selected unless there are enough or its core is seen already.  *)
Select(selected, cpu, limit) ==
  IF \/ Len(selected) >= limit
     \/ get_linux_topology_key(cpu) \in KeysOf(selected)
  THEN selected
  ELSE Append(selected, cpu)

get_core_ids(limit) ==
  LET selected[i \in 0..Len(Cpus)] ==
        IF i = 0 THEN <<>> ELSE Select(selected[i - 1], Cpus[i], limit)
  IN IF limit = 0 THEN Cpus ELSE selected[Len(Cpus)]

-----------------------------------------------------------------------------
(* Listeners.                                                              *)

Acceptor == 0

(* Who binds: the acceptor, or with reuse_port every loop for itself.      *)
Owners(loops) == IF opts.reuse_port THEN 1..Len(loops) ELSE {Acceptor}

(* An owner binds a listener for each address.                             *)
Bindings(owners) == [owner : owners, nth : DOMAIN addrs]

InOrder(b, c) == b.owner < c.owner \/ (b.owner = c.owner /\ b.nth < c.nth)

IsNext(b) == \A c \in todo : b = c \/ InOrder(b, c)

AddrOf(b) == addrs[b.nth]

(* Engine::run up to the first bind.                                       *)
Run ==
  /\ phase = "ready"
  /\ runs < MaxRuns
  /\ runs' = runs + 1
  /\ phase' = "binding"
  /\ cores' = get_core_ids(opts.num_event_loop)
  /\ todo' = Bindings(Owners(cores'))
  /\ UNCHANGED <<config, input, kernel>>

(* Closing a listener leaves the file of a Unix socket where it is.        *)
Stale == [owner |-> Acceptor, nth |-> 0]
Left(f) == [p \in DOMAIN f |-> Stale]

(* collect::<io::Result<Vec<_>>>()? drops the listeners bound before.      *)
Fail(why) ==
  /\ phase' = why
  /\ todo' = {}
  /\ held' = {}
  /\ file' = Left(file)
  /\ UNCHANGED linger

Overlap(a, b) ==
  /\ a.port = b.port
  /\ a.host = b.host \/ Unspecified \in {a.host, b.host}

(* configure_socket: the two options the kernel looks at in bind.          *)
configure_socket == [addr |-> opts.reuse_addr, port |-> opts.reuse_port]

(* The kernel refuses an address that a listening socket has, unless all   *)
(* of them have SO_REUSEPORT, and one that is in TIME_WAIT, unless the     *)
(* sockets have one of the two options.                                    *)
InUse(a) ==
  \/ /\ ~configure_socket.port
     /\ \E b \in held : AddrOf(b).kind = "tcp" /\ Overlap(AddrOf(b).at, a)
  \/ /\ ~configure_socket.addr /\ ~configure_socket.port
     /\ \E x \in linger : Overlap(x, a)

Hold(b) ==
  /\ held' = held \cup {b}
  /\ todo' = todo \ {b}

create_mio_tcp_listener(b) ==
  /\ AddrOf(b).kind = "tcp"
  /\ IF InUse(AddrOf(b).at)
     THEN Fail("refused")
     ELSE Hold(b) /\ UNCHANGED <<phase, file, linger>>

(* Variant with a fault: an old socket file is not removed.                *)
BindUnixOnly(b) ==
  /\ AddrOf(b).kind = "unix"
  /\ IF AddrOf(b).at \in DOMAIN file
     THEN Fail("refused")
     ELSE /\ Hold(b)
          /\ file' = [p \in DOMAIN file \cup {AddrOf(b).at} |->
                        IF p = AddrOf(b).at THEN b ELSE file[p]]
          /\ UNCHANGED <<phase, linger>>

(* Whatever is at the path is removed, whoever it belongs to.              *)
create_mio_unix_listener(b) ==
  /\ AddrOf(b).kind = "unix"
  /\ Hold(b)
  /\ file' = [p \in DOMAIN file \cup {AddrOf(b).at} |->
                IF p = AddrOf(b).at THEN b ELSE file[p]]
  /\ UNCHANGED <<phase, linger>>

bind(b) ==
  /\ phase = "binding"
  /\ IsNext(b)
  /\ create_mio_tcp_listener(b) \/ create_mio_unix_listener(b)
  /\ UNCHANGED <<config, input, cores, runs>>

(* socket, setsockopt, bind or listen fails for a reason outside the       *)
(* program: no descriptors, no permission, no such device; or an old       *)
(* socket file cannot be removed, which is not looked at, and bind then    *)
(* finds the address in use.                                               *)
BindFails ==
  /\ phase = "binding" /\ todo # {}
  /\ Fail("failed")
  /\ UNCHANGED <<config, input, cores, runs>>

AllBound ==
  /\ phase = "binding" /\ todo = {}
  /\ phase' = "running"
  /\ UNCHANGED <<config, input, cores, todo, kernel, runs>>

-----------------------------------------------------------------------------
(* The program ends or crashes; connections it had may stay in TIME_WAIT.  *)
Exit ==
  /\ phase = "running"
  /\ phase' = "exited"
  /\ held' = {}
  /\ file' = Left(file)
  /\ \E b \in SUBSET {c \in held : AddrOf(c).kind = "tcp"} :
       linger' = linger \cup {AddrOf(c).at : c \in b}
  /\ UNCHANGED <<config, input, cores, todo, runs>>

Expire ==
  /\ linger # {}
  /\ linger' = {}
  /\ UNCHANGED <<phase, config, input, cores, todo, held, file, runs>>

(* The program is started again, with the same options and addresses.      *)
Restart ==
  /\ phase \in {"exited", "refused", "failed"}
  /\ phase' = "ready"
  /\ UNCHANGED <<config, input, cores, todo, kernel, runs>>

Init ==
  /\ phase = "configure"
  /\ asked = <<>> /\ base = DefaultOptions /\ builds = 0
  /\ opts = DefaultOptions
  /\ texts = <<>> /\ addrs = <<>>
  /\ topo \in Topologies
  /\ cores = <<>> /\ todo = {} /\ held = {}
  /\ file = <<>> /\ linger = {} /\ runs = 0

Next ==
  \/ \E f \in DOMAIN Offer : \E v \in Offer[f] : Set(f, v)
  \/ Build \/ BuildPanics \/ with_options
  \/ \E list \in Lists : normalize(list)
  \/ Run \/ BindFails \/ AllBound
  \/ \E b \in todo : bind(b)
  \/ Exit \/ Expire \/ Restart

Spec == Init /\ [][Next]_vars

-----------------------------------------------------------------------------
(* The sizes of built Options are never below what was asked for, unless   *)
(* the rounding up overflows, and a size that was built stays what it is   *)
(* when the Options go through a builder again (options.rs 163-233 and     *)
(* 317-329).                                                               *)
SizesKept ==
  phase = "built" =>
    \A f \in Sizes :
      IF f \in DOMAIN asked
      THEN ~Overflows(asked[f]) => opts[f] >= asked[f]
      ELSE builds > 1 /\ base[f] # 0 => opts[f] = base[f]

Readable(cpu) == Unreadable \notin {topo[cpu].socket, topo[cpu].core}
PhysicalCores == {topo[Cpus[i]] : i \in DOMAIN Cpus}

(* When a number of loops is asked for, no two of them share a physical    *)
(* core that the system tells apart, and, if it tells all of them apart,   *)
(* there are as many loops as were asked for or as there are cores         *)
(* (options.rs 331-392).                                                   *)
LoopsPlaced ==
  phase = "running" /\ opts.num_event_loop > 0 =>
    /\ \A i, j \in DOMAIN cores :
         Readable(cores[i]) /\ topo[cores[i]] = topo[cores[j]] => i = j
    /\ (\A i \in DOMAIN Cpus : Readable(Cpus[i])) =>
         Len(cores) = Min({opts.num_event_loop, Cardinality(PhysicalCores)})

SamePathTwice ==
  \E i, j \in DOMAIN addrs : i # j /\ addrs[i] = addrs[j]

(* Once the engine runs, a client can reach every listener it polls: each  *)
(* owner has one for each address, and the file of a Unix socket is that   *)
(* of the listener, not of another loop's, provided no path is listed      *)
(* twice.  normalize sees to it by giving up reuse_port (options.rs        *)
(* 121-123, engine.rs 143-147 and 232-236, listener.rs 203-227).           *)
EveryAddressServed ==
  phase = "running" /\ ~SamePathTwice =>
    \A b \in Bindings(Owners(cores)) :
      /\ b \in held
      /\ AddrOf(b).kind = "unix" => file[AddrOf(b).at] = b

(* A start is refused as `address in use` only when two of the addresses   *)
(* overlap or, after an earlier run, when neither reuse option is set:     *)
(* neither a socket file left by a crash nor the listeners of the other    *)
(* loops stand in the way.  A file that may not be removed does: such a    *)
(* start counts among those that fail for a reason outside the program     *)
(* (listener.rs 159-253).                                                  *)
RefusedForCause ==
  phase = "refused" =>
    /\ ~opts.reuse_port
    /\ \/ \E i, j \in DOMAIN addrs :
            /\ i # j
            /\ addrs[i].kind = "tcp" /\ addrs[j].kind = "tcp"
            /\ Overlap(addrs[i].at, addrs[j].at)
       \/ ~opts.reuse_addr /\ runs > 1
=============================================================================
