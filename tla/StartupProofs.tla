---------------------------- MODULE StartupProofs ----------------------------
(***************************************************************************)
(* Proofs about Startup, for any addresses, settings, cores and number of  *)
(* starts.                                                                 *)
(***************************************************************************)
EXTENDS Startup, WellFoundedInduction, FiniteSetTheorems, TLAPS

(* normalize has gone through the addresses.                               *)
Normalized ==
  phase \in {"ready", "binding", "running", "exited", "refused", "failed"}

(* Listeners are being made or are there.                                  *)
Up == phase \in {"binding", "running"}

(* What normalize leaves: an address is a kind and a place, and with a     *)
(* Unix socket among them there is no reuse_port.                          *)
AddressesFit ==
  /\ \A i \in DOMAIN addrs :
       addrs[i] = [kind |-> addrs[i].kind, at |-> addrs[i].at]
  /\ HasUnix(addrs) => ~opts.reuse_port

(* Every binding of this start is done or still to do.                     *)
Divided ==
  /\ held \cup todo = Bindings(Owners(cores))
  /\ held \cap todo = {}
  /\ phase = "running" => todo = {}

(* The socket file is that of the listener.                                *)
FilesOwn ==
  \A b \in held :
    AddrOf(b).kind = "unix" /\ ~SamePathTwice =>
      AddrOf(b).at \in DOMAIN file /\ file[AddrOf(b).at] = b

(* Connections in TIME_WAIT are those of an earlier start.                 *)
LingerOld ==
  /\ runs \in Nat
  /\ Up => runs > 0
  /\ linger # {} => runs > 0 /\ (Up => runs > 1)

(* The inductive invariant.                                                *)
Inv ==
  /\ "reuse_port" \in DOMAIN opts
  /\ Normalized => AddressesFit
  /\ Up => Divided /\ FilesOwn
  /\ ~Up => held = {}
  /\ LingerOld
  /\ RefusedForCause

-----------------------------------------------------------------------------
(* The initial state.                                                      *)
LEMMA InvInit == Init => Inv
<1> SUFFICES ASSUME Init PROVE Inv
  OBVIOUS
<1>1. phase = "configure" /\ held = {} /\ linger = {} /\ runs = 0
  BY DEF Init
<1>2. "reuse_port" \in DOMAIN opts
  BY DEF Init, DefaultOptions
<1>3. ~Normalized /\ ~Up /\ LingerOld /\ RefusedForCause
  BY <1>1 DEF Normalized, Up, LingerOld, RefusedForCause
<1> QED
  BY <1>1, <1>2, <1>3 DEF Inv

(* What is parsed without an error is a kind and a place.                  *)
LEMMA ParsedShape ==
  ASSUME NEW t, from_str(t) # Invalid
  PROVE  from_str(t) = [kind |-> from_str(t).kind, at |-> from_str(t).at]
<1>1. CASE t.body = NoBody
  BY <1>1 DEF from_str
<1>2. CASE t.body # NoBody /\ t.scheme \in {"tcp", "tcp4", "tcp6"}
  <2>1. from_str(t) = IF SocketAddr(t.body).host \in Hosts /\ t.body.port < NoPort
                      THEN [kind |-> "tcp", at |-> SocketAddr(t.body)]
                      ELSE Invalid
    BY <1>2 DEF from_str
  <2>2. from_str(t) = [kind |-> "tcp", at |-> SocketAddr(t.body)]
    BY <2>1
  <2> QED
    BY <2>2
<1>3. CASE t.body # NoBody /\ t.scheme = "unix"
  <2>1. from_str(t) = [kind |-> "unix", at |-> t.body]
    BY <1>3 DEF from_str
  <2> QED
    BY <2>1
<1>4. CASE /\ t.body # NoBody /\ t.scheme # "unix"
           /\ t.scheme \notin {"tcp", "tcp4", "tcp6"}
  BY <1>4 DEF from_str
<1> QED
  BY <1>1, <1>2, <1>3, <1>4

(* Up to normalize there is nothing to bind.                               *)
LEMMA ConfigureStep ==
  ASSUME Inv,
         \/ \E f \in DOMAIN Offer : \E v \in Offer[f] : Set(f, v)
         \/ Build \/ BuildPanics \/ with_options
  PROVE  Inv'
<1>1. /\ phase \in {"configure", "built"}
      /\ phase' \in {"configure", "built", "panicked"}
      /\ UNCHANGED <<runs, held, linger>>
  BY DEF Set, Build, BuildPanics, with_options, kernel, input, config
<1>2. "reuse_port" \in DOMAIN opts'
  <2>1. CASE Build
    <3>1. "reuse_port" \in Settings
      BY DEF Settings, DefaultOptions
    <3>2. DOMAIN opts' = DOMAIN Requested
      BY <2>1 DEF Build
    <3>3. DOMAIN Requested = Settings
      BY DEF Requested
    <3> QED
      BY <3>1, <3>2, <3>3
  <2>2. CASE ~Build
    <3>1. opts' = opts
      BY <2>2 DEF Set, BuildPanics, with_options, config
    <3> QED
      BY <3>1 DEF Inv
  <2> QED
    BY <2>1, <2>2
<1>3. held = {} /\ ~Up' /\ ~Normalized'
  BY <1>1 DEF Inv, Up, Normalized
<1>4. LingerOld' /\ RefusedForCause'
  BY <1>1, <1>3 DEF Inv, LingerOld, RefusedForCause, Up
<1> QED
  BY <1>1, <1>2, <1>3, <1>4 DEF Inv

(* Options::normalize.                                                     *)
LEMMA NormalizeStep ==
  ASSUME Inv, NEW list \in Lists, normalize(list)
  PROVE  Inv'
<1>1. /\ phase = "built" /\ UNCHANGED <<runs, held, linger>>
      /\ phase' \in {"rejected", "ready"}
  BY DEF normalize, kernel
<1>2. held = {} /\ ~Up' /\ LingerOld' /\ RefusedForCause'
  BY <1>1 DEF Inv, Up, LingerOld, RefusedForCause
<1>3. CASE \E i \in DOMAIN list : from_str(list[i]) = Invalid
  <2>1. opts' = opts /\ phase' = "rejected"
    BY <1>3 DEF normalize
  <2>2. ~Normalized'
    BY <2>1 DEF Normalized
  <2> QED
    BY <1>1, <1>2, <2>1, <2>2 DEF Inv
<1>4. CASE ~\E i \in DOMAIN list : from_str(list[i]) = Invalid
  <2>1. /\ addrs' = Parsed(list)
        /\ opts' = [opts EXCEPT !.reuse_port = @ /\ ~HasUnix(Parsed(list))]
    BY <1>4 DEF normalize
  <2>2. /\ "reuse_port" \in DOMAIN opts' 
        /\ HasUnix(Parsed(list)) => ~opts'.reuse_port
    BY <2>1 DEF Inv
  <2>3. DOMAIN addrs' = DOMAIN list
    BY <2>1 DEF Parsed
  <2>4. ASSUME NEW i \in DOMAIN addrs'
        PROVE  addrs'[i] = [kind |-> addrs'[i].kind, at |-> addrs'[i].at]
    <3>1. addrs'[i] = from_str(list[i]) /\ from_str(list[i]) # Invalid
      BY <1>4, <2>1, <2>3, <2>4 DEF Parsed
    <3> QED
      BY <3>1, ParsedShape
  <2>5. AddressesFit'
    BY <2>1, <2>2, <2>4 DEF AddressesFit, HasUnix
  <2> QED
    BY <1>1, <1>2, <2>2, <2>5 DEF Inv
<1> QED
  BY <1>3, <1>4

(* Engine::run up to the first bind.                                       *)
LEMMA RunStep ==
  ASSUME Inv, Run
  PROVE  Inv'
<1>1. /\ phase = "ready" /\ phase' = "binding" /\ runs' = runs + 1
      /\ todo' = Bindings(Owners(cores'))
      /\ UNCHANGED <<opts, addrs, held, file, linger>>
  BY DEF Run, config, input, kernel
<1>2. Normalized /\ ~Up /\ held = {} /\ AddressesFit
  BY <1>1 DEF Inv, Normalized, Up
<1>3. AddressesFit'
  BY <1>1, <1>2 DEF AddressesFit, HasUnix
<1>4. Divided'
  BY <1>1, <1>2 DEF Divided, Bindings, Owners, Acceptor
<1>5. FilesOwn'
  BY <1>1, <1>2 DEF FilesOwn
<1>6. LingerOld'
  BY <1>1 DEF Inv, LingerOld, Up
<1>7. RefusedForCause' /\ Up'
  BY <1>1 DEF RefusedForCause, Up
<1> QED
  BY <1>1, <1>3, <1>4, <1>5, <1>6, <1>7 DEF Inv

(* A listener is given back with the others when one of them fails.        *)
LEMMA FailStep ==
  ASSUME Inv, phase = "binding", NEW why \in {"refused", "failed"}, Fail(why),
         UNCHANGED <<config, input, cores, runs>>, RefusedForCause'
  PROVE  Inv'
<1>1. /\ phase' = why /\ held' = {} /\ linger' = linger
      /\ UNCHANGED <<opts, addrs, runs>>
  BY DEF Fail, config, input
<1>2. Up /\ Normalized /\ ~Up'
  BY <1>1 DEF Up, Normalized
<1>3. AddressesFit'
  BY <1>1, <1>2 DEF Inv, AddressesFit, HasUnix
<1>4. LingerOld'
  BY <1>1, <1>2 DEF Inv, LingerOld
<1> QED
  BY <1>1, <1>2, <1>3, <1>4 DEF Inv

(* One more listener, whatever it does to the files of other paths.        *)
LEMMA HoldStep ==
  ASSUME Inv, phase = "binding", NEW b \in todo, Hold(b),
         UNCHANGED <<phase, linger, config, input, cores, runs>>, FilesOwn'
  PROVE  Inv'
<1>1. /\ held' = held \cup {b} /\ todo' = todo \ {b}
      /\ UNCHANGED <<phase, linger, opts, addrs, cores, runs>>
  BY DEF Hold, config, input
<1>2. Up /\ Normalized /\ Up' /\ Divided /\ AddressesFit
  BY <1>1 DEF Inv, Up, Normalized
<1>3. AddressesFit'
  BY <1>1, <1>2 DEF AddressesFit, HasUnix
<1>4. Divided'
  BY <1>1, <1>2 DEF Divided, Bindings, Owners, Acceptor
<1>5. LingerOld' /\ RefusedForCause'
  BY <1>1, <1>2 DEF Inv, LingerOld, RefusedForCause
<1> QED
  BY <1>1, <1>2, <1>3, <1>4, <1>5 DEF Inv

(* Without reuse_port one thread binds everything, so that two bindings    *)
(* differ in the address.                                                  *)
LEMMA OneOwner ==
  ASSUME Inv, Up, ~opts.reuse_port,
         NEW a \in held \cup todo, NEW b \in held \cup todo, a # b
  PROVE  a.nth \in DOMAIN addrs /\ b.nth \in DOMAIN addrs /\ a.nth # b.nth
<1>1. held \cup todo = [owner : {Acceptor}, nth : DOMAIN addrs]
  BY DEF Inv, Divided, Bindings, Owners
<1>2. /\ a \in [owner : {Acceptor}, nth : DOMAIN addrs]
      /\ b \in [owner : {Acceptor}, nth : DOMAIN addrs]
  BY <1>1
<1>3. /\ a = [owner |-> Acceptor, nth |-> a.nth] /\ a.nth \in DOMAIN addrs
      /\ b = [owner |-> Acceptor, nth |-> b.nth] /\ b.nth \in DOMAIN addrs
  BY <1>2
<1> QED
  BY <1>3

(* listener::bind: an address in use is one that another listener of this  *)
(* start has, or that an earlier start has left in TIME_WAIT; a socket     *)
(* file is taken from whoever had it, which is no other listener.          *)
LEMMA BindStep ==
  ASSUME Inv, NEW b \in todo, bind(b)
  PROVE  Inv'
<1>1. /\ phase = "binding" /\ Up /\ Divided /\ FilesOwn /\ Normalized
      /\ AddressesFit
      /\ UNCHANGED <<config, input, cores, runs>>
      /\ UNCHANGED <<opts, addrs, runs>>
  BY DEF bind, Inv, Up, Normalized, config, input
<1>2. CASE create_mio_tcp_listener(b) /\ InUse(AddrOf(b).at)
  <2>1. Fail("refused") /\ phase' = "refused" /\ AddrOf(b).kind = "tcp"
    BY <1>2 DEF create_mio_tcp_listener, Fail
  <2>2. ~opts.reuse_port
    BY <1>2 DEF InUse, configure_socket
  <2>3. \/ \E i, j \in DOMAIN addrs :
              /\ i # j
              /\ addrs[i].kind = "tcp" /\ addrs[j].kind = "tcp"
              /\ Overlap(addrs[i].at, addrs[j].at)
        \/ ~opts.reuse_addr /\ runs > 1
    <3>1. CASE \E a \in held : /\ AddrOf(a).kind = "tcp"
                               /\ Overlap(AddrOf(a).at, AddrOf(b).at)
      <4>1. PICK a \in held : /\ AddrOf(a).kind = "tcp"
                              /\ Overlap(AddrOf(a).at, AddrOf(b).at)
        BY <3>1
      <4>2. a # b
        BY <1>1 DEF Divided
      <4>3. a.nth \in DOMAIN addrs /\ b.nth \in DOMAIN addrs /\ a.nth # b.nth
        BY <1>1, <2>2, <4>2, OneOwner
      <4> QED
        BY <2>1, <4>1, <4>3 DEF AddrOf
    <3>2. CASE ~opts.reuse_addr /\ \E x \in linger : Overlap(x, AddrOf(b).at)
      BY <1>1, <3>2 DEF Inv, LingerOld
    <3> QED
      BY <1>2, <3>1, <3>2 DEF InUse, configure_socket
  <2>4. RefusedForCause'
    BY <1>1, <2>2, <2>3 DEF RefusedForCause, Overlap, Unspecified
  <2> QED
    BY <1>1, <2>1, <2>4, FailStep
<1>3. CASE create_mio_tcp_listener(b) /\ ~InUse(AddrOf(b).at)
  <2>1. Hold(b) /\ UNCHANGED <<phase, file, linger>> /\ AddrOf(b).kind = "tcp"
    BY <1>3 DEF create_mio_tcp_listener
  <2>2. FilesOwn'
    BY <1>1, <2>1 DEF FilesOwn, Hold, AddrOf, SamePathTwice
  <2> QED
    BY <1>1, <2>1, <2>2, HoldStep
<1>4. CASE create_mio_unix_listener(b)
  <2> PICK p : p = AddrOf(b).at
    OBVIOUS
  <2>1. /\ Hold(b) /\ UNCHANGED <<phase, linger>> /\ AddrOf(b).kind = "unix"
        /\ file' = [q \in DOMAIN file \cup {p} |-> IF q = p THEN b ELSE file[q]]
        /\ held' = held \cup {b}
    BY <1>4 DEF create_mio_unix_listener, Hold
  <2>2. b.nth \in DOMAIN addrs
    BY <1>1 DEF Divided, Bindings
  <2>3. ~opts.reuse_port
    BY <1>1, <2>1, <2>2 DEF AddressesFit, HasUnix, AddrOf
  <2>4. ASSUME NEW a \in held', AddrOf(a).kind = "unix", ~SamePathTwice
        PROVE  AddrOf(a).at \in DOMAIN file' /\ file'[AddrOf(a).at] = a
    <3>1. CASE a = b
      BY <2>1, <3>1
    <3>2. CASE a # b
      <4>1. a \in held
        BY <2>1, <3>2
      <4>2. AddrOf(a).at \in DOMAIN file /\ file[AddrOf(a).at] = a
        BY <1>1, <2>4, <4>1 DEF FilesOwn
      <4>3. a.nth \in DOMAIN addrs /\ a.nth # b.nth
        BY <1>1, <2>3, <3>2, <4>1, OneOwner
      <4>4. addrs[a.nth] # addrs[b.nth]
        BY <2>2, <2>4, <4>3 DEF SamePathTwice
      <4>5. /\ addrs[a.nth] = [kind |-> "unix", at |-> AddrOf(a).at]
            /\ addrs[b.nth] = [kind |-> "unix", at |-> p]
        BY <1>1, <2>1, <2>2, <2>4, <4>3 DEF AddressesFit, AddrOf
      <4>6. AddrOf(a).at # p
        BY <4>4, <4>5
      <4> QED
        BY <2>1, <4>2, <4>6
    <3> QED
      BY <3>1, <3>2
  <2>5. FilesOwn'
    BY <1>1, <2>4 DEF FilesOwn, AddrOf, SamePathTwice
  <2> QED
    BY <1>1, <2>1, <2>5, HoldStep
<1> QED
  BY <1>2, <1>3, <1>4 DEF bind

(* The rest: a failure from outside, the end of binding, the end of the    *)
(* program, its next start, and the end of TIME_WAIT.                      *)
LEMMA OtherStep ==
  ASSUME Inv, BindFails \/ AllBound \/ Exit \/ Expire \/ Restart
  PROVE  Inv'
<1>1. CASE BindFails
  <2>1. /\ phase = "binding" /\ Fail("failed")
        /\ UNCHANGED <<config, input, cores, runs>>
    BY <1>1 DEF BindFails
  <2>2. RefusedForCause'
    BY <2>1 DEF Fail, RefusedForCause
  <2> QED
    BY <2>1, <2>2, FailStep
<1>2. CASE AllBound
  <2>1. /\ phase = "binding" /\ phase' = "running" /\ todo = {}
        /\ UNCHANGED <<opts, addrs, cores, todo, held, file, linger, runs>>
    BY <1>2 DEF AllBound, config, input, kernel
  <2>2. Up /\ Up' /\ Normalized
    BY <2>1 DEF Up, Normalized
  <2>3. AddressesFit' /\ Divided' /\ FilesOwn'
    BY <2>1, <2>2 DEF Inv, AddressesFit, HasUnix, Divided, Bindings, Owners,
                      Acceptor, FilesOwn, AddrOf, SamePathTwice
  <2>4. LingerOld' /\ RefusedForCause'
    BY <2>1, <2>2 DEF Inv, LingerOld, RefusedForCause
  <2> QED
    BY <2>1, <2>2, <2>3, <2>4 DEF Inv
<1>3. CASE Exit
  <2>1. /\ phase = "running" /\ phase' = "exited" /\ held' = {}
        /\ UNCHANGED <<opts, addrs, runs>>
    BY <1>3 DEF Exit, config, input
  <2>2. Up /\ ~Up' /\ Normalized
    BY <2>1 DEF Up, Normalized
  <2>3. AddressesFit'
    BY <2>1, <2>2 DEF Inv, AddressesFit, HasUnix
  <2>4. LingerOld' /\ RefusedForCause'
    BY <2>1, <2>2 DEF Inv, LingerOld, RefusedForCause
  <2> QED
    BY <2>1, <2>2, <2>3, <2>4 DEF Inv
<1>4. CASE Expire
  <2>1. /\ linger' = {}
        /\ UNCHANGED <<phase, opts, addrs, cores, todo, held, file, runs>>
    BY <1>4 DEF Expire, config, input
  <2>2. Up' = Up /\ Normalized' = Normalized
    BY <2>1 DEF Up, Normalized
  <2>3. AddressesFit' = AddressesFit /\ Divided' = Divided
    BY <2>1 DEF AddressesFit, HasUnix, Divided, Bindings, Owners, Acceptor
  <2>4. FilesOwn' = FilesOwn
    BY <2>1 DEF FilesOwn, AddrOf, SamePathTwice
  <2>5. LingerOld' /\ RefusedForCause'
    BY <2>1, <2>2 DEF Inv, LingerOld, RefusedForCause, Overlap, Unspecified
  <2> QED
    BY <2>1, <2>2, <2>3, <2>4, <2>5 DEF Inv
<1>5. CASE Restart
  <2>1. /\ phase \in {"exited", "refused", "failed"} /\ phase' = "ready"
        /\ UNCHANGED <<opts, addrs, held, linger, runs>>
    BY <1>5 DEF Restart, config, input, kernel
  <2>2. ~Up /\ ~Up' /\ Normalized /\ held = {}
    BY <2>1 DEF Inv, Up, Normalized
  <2>3. AddressesFit'
    BY <2>1, <2>2 DEF Inv, AddressesFit, HasUnix
  <2>4. LingerOld' /\ RefusedForCause'
    BY <2>1, <2>2 DEF Inv, LingerOld, RefusedForCause
  <2> QED
    BY <2>1, <2>2, <2>3, <2>4 DEF Inv
<1> QED
  BY <1>1, <1>2, <1>3, <1>4, <1>5

(* The invariant holds throughout.                                         *)
LEMMA Invariance == Spec => []Inv
<1>1. Inv /\ [Next]_vars => Inv'
  <2> SUFFICES ASSUME Inv, [Next]_vars PROVE Inv'
    OBVIOUS
  <2>1. CASE UNCHANGED vars
    <3>1. UNCHANGED <<phase, opts, addrs, cores, todo, held, file, linger, runs>>
      BY <2>1 DEF vars, config, input, kernel
    <3>2. Up' = Up /\ Normalized' = Normalized
      BY <3>1 DEF Up, Normalized
    <3>3. AddressesFit' = AddressesFit /\ Divided' = Divided
      BY <3>1 DEF AddressesFit, HasUnix, Divided, Bindings, Owners, Acceptor
    <3>4. FilesOwn' = FilesOwn
      BY <3>1 DEF FilesOwn, AddrOf, SamePathTwice
    <3>5. LingerOld' /\ RefusedForCause'
      BY <3>1, <3>2 DEF Inv, LingerOld, RefusedForCause, Overlap, Unspecified
    <3> QED
      BY <3>1, <3>2, <3>3, <3>4, <3>5 DEF Inv
  <2>2. CASE Next
    BY <2>2, ConfigureStep, NormalizeStep, RunStep, BindStep, OtherStep DEF Next
  <2> QED
    BY <2>1, <2>2
<1> QED
  BY <1>1, InvInit, PTL DEF Spec

(* Once the engine runs, every owner has a listener for each address and   *)
(* the file of a Unix socket leads to its listener (options.rs 121-123,    *)
(* engine.rs 143-147 and 232-236, listener.rs 203-227).                    *)
THEOREM AllServed == Spec => []EveryAddressServed
<1>1. Inv => EveryAddressServed
  BY DEF Inv, Up, Divided, FilesOwn, EveryAddressServed
<1> QED
  BY <1>1, Invariance, PTL

(* A start is refused only for two addresses that overlap, or after an     *)
(* earlier start without a reuse option (listener.rs 159-253).             *)
THEOREM RefusalsExplained == Spec => []RefusedForCause
<1>1. Inv => RefusedForCause
  BY DEF Inv
<1> QED
  BY <1>1, Invariance, PTL
-----------------------------------------------------------------------------
(* Sizes.                                                                  *)

(* The least size build gives a field.                                     *)
Lower(f) == IF f = "max_batch_size" THEN 2 ELSE DEFAULT_BUFFER_SIZE

(* What build may leave in a field: a power of two, or the zero that the   *)
(* rounding wraps to.                                                      *)
Rounded(f, v) == v = 0 \/ (v \in Nat /\ v >= Lower(f) /\ IsPowerOfTwo(v))

(* What build makes of a size.                                             *)
Built(f, v) ==
  IF f = "max_batch_size"
  THEN IF v > 0 THEN ceil_to_power_of_two(v) ELSE DefaultBatch
  ELSE normalize_buffer_size(v)

(* A set of numbers has a least one.                                       *)
LEMMA Least ==
  ASSUME NEW S \in SUBSET Nat, S # {}
  PROVE  \E x \in S : \A y \in S : x <= y
<1>1. PICK x \in S : \A y \in S : ~(<<y, x>> \in OpToRel(<, Nat))
  BY NatLessThanWellFounded, WFMin, Zenon
<1>2. ASSUME NEW y \in S PROVE x <= y
  <2>1. ~(<<y, x>> \in OpToRel(<, Nat))
    BY <1>1, Zenon
  <2>2. ~(y < x)
    BY <2>1, Zenon DEF OpToRel
  <2> QED
    BY <2>2
<1> QED
  BY <1>2

(* So Min is in the set and a lower bound of it.                           *)
LEMMA MinIsLeast ==
  ASSUME NEW S \in SUBSET Nat, S # {}
  PROVE  Min(S) \in S /\ \A y \in S : Min(S) <= y
<1>1. \E x \in S : \A y \in S : x <= y
  BY Least
<1> QED
  BY <1>1, Zenon DEF Min

(* next_power_of_two: a power of two that is no less, or zero; the former  *)
(* unless the number is above the largest power; and itself if it is one.  *)
LEMMA NextPower ==
  ASSUME NEW n \in Nat, n < 2 ^ WordBits
  PROVE  /\ \/ NextPowerOfTwo(n) = 0
            \/ /\ NextPowerOfTwo(n) \in Nat /\ NextPowerOfTwo(n) >= n
               /\ IsPowerOfTwo(NextPowerOfTwo(n))
         /\ ~Overflows(n) => NextPowerOfTwo(n) # 0
         /\ IsPowerOfTwo(n) => NextPowerOfTwo(n) = n
<1> PICK W, T, S, m : /\ W = WordBits /\ T = 2 ^ WordBits
                      /\ S = {i \in 0..W : 2 ^ i >= n} /\ m = Min(S)
  OBVIOUS
<1>1. W \in Nat \ {0} /\ W \in 0..W /\ W - 1 \in 0..W /\ T \in Nat \ {0}
  BY StartupAssumption, PowersGrow
<1>2. /\ \A i \in 0..W : 2 ^ i \in Nat \ {0}
      /\ \A i, j \in 0..W : i < j => 2 ^ i < 2 ^ j
  BY PowersGrow
<1>3. m \in 0..W /\ 2 ^ m >= n /\ \A i \in S : m <= i
  <2>1. W \in S
    BY <1>1
  <2>2. S \in SUBSET Nat
    BY <1>1
  <2> QED
    BY <2>1, <2>2, MinIsLeast
<1>4. NextPowerOfTwo(n) = (2 ^ m) % T
  BY DEF NextPowerOfTwo
<1>5. ASSUME m < W
      PROVE  NextPowerOfTwo(n) = 2 ^ m /\ IsPowerOfTwo(2 ^ m)
  <2>1. 2 ^ m \in Nat \ {0} /\ 2 ^ m < T
    BY <1>1, <1>2, <1>3, <1>5
  <2>2. (2 ^ m) % T = 2 ^ m
    BY <1>1, <2>1
  <2>3. m \in 0..(W - 1)
    BY <1>1, <1>3, <1>5
  <2> QED
    BY <1>4, <2>2, <2>3 DEF IsPowerOfTwo
<1>6. ASSUME m = W
      PROVE  NextPowerOfTwo(n) = 0
  <2>1. T % T = 0
    BY <1>1
  <2> QED
    BY <1>4, <1>6, <2>1
<1>7. m < W \/ m = W
  BY <1>1, <1>3
<1>8. ASSUME ~Overflows(n) PROVE m < W
  <2>1. 2 ^ (W - 1) \in Nat
    BY <1>1, <1>2
  <2>2. 2 ^ (W - 1) >= n
    BY <1>8, <2>1 DEF Overflows
  <2>3. m <= W - 1
    BY <1>1, <1>3, <2>2
  <2> QED
    BY <1>1, <1>3, <2>3
<1>9. ASSUME IsPowerOfTwo(n) PROVE NextPowerOfTwo(n) = n
  <2>1. PICK i \in 0..(W - 1) : n = 2 ^ i
    BY <1>9 DEF IsPowerOfTwo
  <2>2. i \in 0..W /\ i < W
    BY <1>1
  <2>3. m <= i
    BY <1>3, <2>1, <2>2
  <2>4. ~(m < i)
    BY <1>2, <1>3, <2>1, <2>2
  <2>5. m = i
    BY <1>3, <2>2, <2>3, <2>4
  <2> QED
    BY <1>5, <2>1, <2>2, <2>5
<1>10. 2 ^ m \in Nat \ {0}
  BY <1>2, <1>3
<1> QED
  BY <1>3, <1>5, <1>6, <1>7, <1>8, <1>9, <1>10

(* The constants.                                                          *)
LEMMA SizeConstants ==
  /\ DEFAULT_BUFFER_SIZE \in Words /\ MAX_STREAM_BUFFER_CAP \in Words
  /\ DefaultBatch \in Words /\ 2 \in Words
  /\ 2 <= DEFAULT_BUFFER_SIZE /\ DEFAULT_BUFFER_SIZE <= MAX_STREAM_BUFFER_CAP
  /\ 2 <= DefaultBatch
  /\ IsPowerOfTwo(DEFAULT_BUFFER_SIZE) /\ IsPowerOfTwo(MAX_STREAM_BUFFER_CAP)
  /\ IsPowerOfTwo(DefaultBatch) /\ IsPowerOfTwo(2)
  /\ Words \subseteq Nat /\ \A n \in Words : n < 2 ^ WordBits

<1> DEFINE Ns == {DEFAULT_BUFFER_SIZE, MAX_STREAM_BUFFER_CAP, DefaultBatch}
<1>1. /\ WordBits \in Nat \ {0}
      /\ \A n \in Ns : n \in Nat /\ 2 <= n /\ IsPowerOfTwo(n)
      /\ DEFAULT_BUFFER_SIZE <= MAX_STREAM_BUFFER_CAP
  BY StartupAssumption
<1>2. 2 ^ WordBits \in Nat \ {0}
  BY <1>1, PowersGrow
<1>3. ASSUME NEW n \in Nat, IsPowerOfTwo(n) PROVE n < 2 ^ WordBits
  <2>1. PICK i \in 0..(WordBits - 1) : n = 2 ^ i
    BY <1>3 DEF IsPowerOfTwo
  <2>2. i \in 0..WordBits /\ WordBits \in 0..WordBits /\ i < WordBits
    BY <1>1
  <2> QED
    BY <2>1, <2>2, PowersGrow
<1>4. Words \subseteq Nat /\ \A n \in Nat : (n < 2 ^ WordBits) = (n \in Words)
  BY <1>2 DEF Words
<1>5. IsPowerOfTwo(2)
  <2>1. PICK i \in 0..(WordBits - 1) : DEFAULT_BUFFER_SIZE = 2 ^ i
    BY <1>1 DEF IsPowerOfTwo
  <2>2. 2 <= 2 ^ i
    BY <1>1, <2>1
  <2>3. 2 ^ 1 = 2
    OBVIOUS
  <2>4. i # 0
    <3>1. SUFFICES ASSUME i = 0 PROVE FALSE
      OBVIOUS
    <3>2. 2 ^ i = 1
      BY <3>1, SMT
    <3> QED
      BY <2>2, <3>2
  <2>5. 1 \in 0..(WordBits - 1)
    BY <1>1, <2>4
  <2> QED
    BY <2>3, <2>5 DEF IsPowerOfTwo
<1> QED
  BY <1>1, <1>3, <1>4, <1>5

(* What build makes of a size: one it would leave alone, and no smaller    *)
(* than what was asked for unless that is beyond the largest power of two. *)
LEMMA BuiltFits ==
  ASSUME NEW f \in Sizes, NEW v \in Words
  PROVE  /\ Rounded(f, Built(f, v)) /\ Built(f, v) \in Words
         /\ ~Overflows(v) => Built(f, v) >= v
         /\ Rounded(f, v) /\ v # 0 => Built(f, v) = v
<1> PICK b, c, p : /\ b = Built(f, v) /\ c = ceil_to_power_of_two(v)
                   /\ p = NextPowerOfTwo(v)
  OBVIOUS
<1>1. v \in Nat /\ v < 2 ^ WordBits /\ Lower(f) \in Nat /\ Lower(f) >= 2
  BY SizeConstants DEF Lower
<1>2. /\ p = 0 \/ (p \in Nat /\ p >= v /\ IsPowerOfTwo(p))
      /\ ~Overflows(v) => p # 0
      /\ IsPowerOfTwo(v) => p = v
  BY <1>1, NextPower
<1>3. c = IF v <= 2 THEN 2 ELSE p
  BY DEF ceil_to_power_of_two
<1>4. ASSUME NEW n \in Nat, IsPowerOfTwo(n) PROVE n \in Words
  <2>1. PICK i \in 0..(WordBits - 1) : n = 2 ^ i
    BY <1>4 DEF IsPowerOfTwo
  <2>2. i \in 0..WordBits /\ WordBits \in 0..WordBits /\ i < WordBits
    BY StartupAssumption
  <2>3. n < 2 ^ WordBits /\ 2 ^ WordBits \in Nat
    BY <2>1, <2>2, PowersGrow
  <2> QED
    BY <2>3 DEF Words
<1>5. 0 \in Words
  BY SizeConstants, PowersGrow, StartupAssumption DEF Words
<1>6. CASE f = "max_batch_size"
  <2>1. b = (IF v > 0 THEN c ELSE DefaultBatch) /\ Lower(f) = 2
    BY <1>6 DEF Built, Lower
  <2>2. CASE v = 0
    BY <1>1, <2>1, <2>2, SizeConstants DEF Rounded
  <2>3. CASE v # 0 /\ v <= 2
    BY <1>1, <1>3, <2>1, <2>3, SizeConstants DEF Rounded
  <2>4. CASE v # 0 /\ ~(v <= 2)
    <3>1. b = p /\ v > 2
      BY <1>1, <1>3, <2>1, <2>4
    <3> QED
      BY <1>1, <1>2, <1>4, <1>5, <2>1, <3>1 DEF Rounded
  <2> QED
    BY <2>2, <2>3, <2>4
<1>7. CASE f # "max_batch_size"
  <2> PICK d : d = DEFAULT_BUFFER_SIZE
    OBVIOUS
  <2>1. /\ b = IF v = 0 THEN MAX_STREAM_BUFFER_CAP
               ELSE IF v <= d THEN d ELSE c
        /\ Lower(f) = d /\ d \in Nat /\ d >= 2
    BY <1>7, SizeConstants DEF Built, Lower, normalize_buffer_size
  <2>2. CASE v = 0
    BY <1>1, <2>1, <2>2, SizeConstants DEF Rounded
  <2>3. CASE v # 0 /\ v <= d
    BY <1>1, <2>1, <2>3, SizeConstants DEF Rounded
  <2>4. CASE v # 0 /\ ~(v <= d)
    <3>1. b = p /\ v > d
      BY <1>1, <1>3, <2>1, <2>4
    <3> QED
      BY <1>1, <1>2, <1>4, <1>5, <2>1, <3>1 DEF Rounded
  <2> QED
    BY <2>2, <2>3, <2>4
<1> QED
  BY <1>6, <1>7

(* The sizes that a builder starts from, and those that it has built.      *)
SizesInv ==
  /\ builds \in Nat
  /\ \A f \in DOMAIN asked \cap Sizes : asked[f] \in Words
  /\ \A f \in Sizes : base[f] \in Words
  /\ phase = "configure" /\ builds > 0 => \A f \in Sizes : Rounded(f, base[f])
  /\ phase = "built" => \A f \in Sizes :
       /\ opts[f] = Built(f, Requested[f])
       /\ builds > 1 => Rounded(f, base[f])

(* The sizes among the settings.                                           *)
LEMMA SizesSet ==
  /\ Sizes \subseteq Settings
  /\ \A f \in Sizes : DefaultOptions[f] \in {0, MAX_STREAM_BUFFER_CAP}
  /\ SizesInv => \A f \in Sizes : Requested[f] \in Words
<1>1. Sizes \subseteq Settings
  BY DEF Sizes, Settings, DefaultOptions
<1>2. \A f \in Sizes : DefaultOptions[f] \in {0, MAX_STREAM_BUFFER_CAP}
  <2>1. /\ DefaultOptions["max_batch_size"] = 0
        /\ DefaultOptions["read_buffer_cap"] = MAX_STREAM_BUFFER_CAP
        /\ DefaultOptions["write_buffer_cap"] = MAX_STREAM_BUFFER_CAP
    BY DEF DefaultOptions
  <2> QED
    BY <2>1 DEF Sizes
<1>3. ASSUME SizesInv, NEW f \in Sizes PROVE Requested[f] \in Words
  <2>1. Requested[f] = IF f \in DOMAIN asked THEN asked[f] ELSE base[f]
    BY <1>1 DEF Requested
  <2> QED
    BY <1>3, <2>1 DEF SizesInv
<1> QED
  BY <1>1, <1>2, <1>3

(* Every step keeps them.                                                  *)
LEMMA SizesStep ==
  ASSUME SizesInv, [Next]_vars
  PROVE  SizesInv'
<1>1. CASE \E f \in DOMAIN Offer : \E v \in Offer[f] : Set(f, v)
  <2>1. PICK f \in DOMAIN Offer : \E v \in Offer[f] : Set(f, v)
    BY <1>1
  <2>2. PICK v \in Offer[f] : Set(f, v)
    BY <2>1
  <2>3. /\ phase = "configure" /\ phase' = phase
        /\ asked' = [g \in DOMAIN asked \cup {f} |->
                       IF g = f THEN v ELSE asked[g]]
        /\ base' = base /\ builds' = builds
    BY <2>2 DEF Set
  <2>4. \A g \in DOMAIN asked' \cap Sizes : asked'[g] \in Words
    <3>1. f \in Sizes => v \in Words
      BY StartupAssumption
    <3>2. DOMAIN asked' = DOMAIN asked \cup {f}
      BY <2>3
    <3> QED
      BY <2>3, <3>1, <3>2 DEF SizesInv
  <2>5. \A g \in Sizes : base'[g] \in Words
    BY <2>3 DEF SizesInv
  <2>6. phase' = "configure" /\ builds' > 0 =>
          \A g \in Sizes : Rounded(g, base'[g])
    BY <2>3 DEF SizesInv
  <2>7. phase' # "built" /\ builds' \in Nat
    BY <2>3 DEF SizesInv
  <2> QED
    BY <2>4, <2>5, <2>6, <2>7, Zenon DEF SizesInv, Rounded, Lower, IsPowerOfTwo
<1>2. CASE Build
  <2>1. /\ phase = "configure" /\ phase' = "built" /\ builds' = builds + 1
        /\ asked' = asked /\ base' = base
        /\ opts' = [Requested EXCEPT
             !.max_batch_size = IF @ > 0 THEN ceil_to_power_of_two(@)
                                         ELSE DefaultBatch,
             !.read_buffer_cap = normalize_buffer_size(@),
             !.write_buffer_cap = normalize_buffer_size(@)]
    BY <1>2 DEF Build
  <2>2. Requested' = Requested
    BY <2>1 DEF Requested, Settings, DefaultOptions
  <2>3. DOMAIN Requested = Settings
    BY DEF Requested
  <2>4. ASSUME NEW f \in Sizes PROVE opts'[f] = Built(f, Requested[f])
    <3>1. CASE f = "max_batch_size"
      BY <2>1, <2>3, <3>1, SizesSet DEF Built
    <3>2. CASE f = "read_buffer_cap"
      BY <2>1, <2>3, <3>2, SizesSet DEF Built
    <3>3. CASE f = "write_buffer_cap"
      BY <2>1, <2>3, <3>3, SizesSet DEF Built
    <3> QED
      BY <3>1, <3>2, <3>3 DEF Sizes
  <2>5. builds' > 1 => \A f \in Sizes : Rounded(f, base[f])
    BY <2>1 DEF SizesInv
  <2>6. /\ builds' \in Nat
        /\ \A f \in DOMAIN asked \cap Sizes : asked[f] \in Words
        /\ \A f \in Sizes : base[f] \in Words
    BY <2>1 DEF SizesInv
  <2>7. \A f \in Sizes : opts'[f] = Built(f, Requested'[f])
    BY <2>2, <2>4
  <2> QED
    BY <2>1, <2>5, <2>6, <2>7
       DEF SizesInv, Built, Rounded, Lower, IsPowerOfTwo, Words,
           ceil_to_power_of_two, normalize_buffer_size, NextPowerOfTwo, Min
<1>3. CASE with_options
  <2>1. /\ phase = "built" /\ phase' = "configure" /\ base' = opts
        /\ asked' = <<>> /\ builds' = builds
    BY <1>3 DEF with_options
  <2>2. ASSUME NEW f \in Sizes
        PROVE  Rounded(f, opts[f]) /\ opts[f] \in Words
    <3>1. opts[f] = Built(f, Requested[f]) /\ Requested[f] \in Words
      BY <2>1, SizesSet DEF SizesInv
    <3> QED
      BY <3>1, BuiltFits
  <2>3. DOMAIN asked' = {}
    BY <2>1
  <2> QED
    BY <2>1, <2>2, <2>3 DEF SizesInv
<1>4. ASSUME \/ UNCHANGED vars \/ Expire
      PROVE  SizesInv'
  <2>1. UNCHANGED <<phase, asked, base, builds, opts>>
    BY <1>4 DEF vars, config, Expire
  <2> QED
    BY <2>1 DEF SizesInv, Requested
<1>5. ASSUME \/ BuildPanics \/ \E list \in Lists : normalize(list)
             \/ Run \/ BindFails \/ AllBound \/ \E b \in todo : bind(b)
             \/ Exit \/ Restart
      PROVE  SizesInv'
  <2>1. UNCHANGED <<asked, base, builds>>
    BY <1>5 DEF config, BuildPanics, normalize, Run, BindFails, AllBound, bind,
                Exit, Restart
  <2>2. phase' \notin {"configure", "built"}
    BY <1>5 DEF BuildPanics, normalize, Run, BindFails, AllBound, bind,
                Exit, Restart, Fail, create_mio_tcp_listener,
                create_mio_unix_listener
  <2> QED
    BY <2>1, <2>2 DEF SizesInv
<1> QED
  BY <1>1, <1>2, <1>3, <1>4, <1>5 DEF Next

(* Sizes are rounded up, unless that overflows, and rounding them again    *)
(* changes nothing, for a usize of any width (options.rs 163-233 and       *)
(* 317-329).                                                               *)
THEOREM SizesStay == Spec => []SizesKept
<1>1. Init => SizesInv
  <2> SUFFICES ASSUME Init PROVE SizesInv
    OBVIOUS
  <2>1. /\ phase = "configure" /\ builds = 0 /\ DOMAIN asked = {}
        /\ base = DefaultOptions
    BY DEF Init
  <2>2. 0 \in Words /\ MAX_STREAM_BUFFER_CAP \in Words
    BY SizeConstants, PowersGrow, StartupAssumption DEF Words
  <2> QED
    BY <2>1, <2>2, SizesSet DEF SizesInv
<1>2. SizesInv /\ [Next]_vars => SizesInv'
  BY SizesStep
<1>3. SizesInv => SizesKept
  <2> SUFFICES ASSUME SizesInv, phase = "built", NEW f \in Sizes
               PROVE  IF f \in DOMAIN asked
                      THEN ~Overflows(asked[f]) => opts[f] >= asked[f]
                      ELSE builds > 1 /\ base[f] # 0 => opts[f] = base[f]
    BY DEF SizesKept
  <2>1. /\ opts[f] = Built(f, Requested[f]) /\ Requested[f] \in Words
        /\ builds > 1 => Rounded(f, base[f])
    BY SizesSet DEF SizesInv
  <2>2. Requested[f] = IF f \in DOMAIN asked THEN asked[f] ELSE base[f]
    BY SizesSet DEF Requested
  <2> PICK v, b : v = Requested[f] /\ b = Built(f, v)
    OBVIOUS
  <2>3. /\ ~Overflows(v) => b >= v
        /\ Rounded(f, v) /\ v # 0 => b = v
    BY <2>1, BuiltFits
  <2> QED
    BY <2>1, <2>2, <2>3
<1> QED
  BY <1>1, <1>2, <1>3, PTL DEF Spec

-----------------------------------------------------------------------------
(* Cores.                                                                  *)

(* get_linux_topology_key, with the topology as an argument.               *)
Key(t, cpu) ==
  [socket |-> IF t[cpu].socket = Unreadable THEN 0 ELSE t[cpu].socket,
   core |-> IF t[cpu].core = Unreadable THEN cpu ELSE t[cpu].core]

(* The keys of a sequence of cpus, and of the first m cpus there are.      *)
Keys(t, cpus) == {Key(t, cpus[i]) : i \in 1..Len(cpus)}
FirstKeys(t, m) == {Key(t, Cpus[i]) : i \in 1..m}

(* What get_core_ids has selected when it has looked at m cpus: at most    *)
(* limit of them, no two with the same key, and, as long as they are       *)
(* fewer, one for each key it has seen.                                    *)
Selected(t, s, m, limit) ==
  /\ s \in Seq(Nat)
  /\ Len(s) <= limit
  /\ \A i, j \in 1..Len(s) : Key(t, s[i]) = Key(t, s[j]) => i = j
  /\ Keys(t, s) \subseteq FirstKeys(t, m)
  /\ Len(s) < limit => FirstKeys(t, m) \subseteq Keys(t, s)

LEMMA SelectIs ==
  ASSUME NEW s \in Seq(Nat), NEW cpu, NEW limit
  PROVE  Select(s, cpu, limit) =
           IF Len(s) >= limit \/ Key(topo, cpu) \in Keys(topo, s)
           THEN s ELSE Append(s, cpu)
<1>1. DOMAIN s = 1..Len(s)
  OBVIOUS
<1>2. KeysOf(s) = Keys(topo, s) /\ get_linux_topology_key(cpu) = Key(topo, cpu)
  BY <1>1 DEF KeysOf, Keys, get_linux_topology_key, Key
<1> QED
  BY <1>2 DEF Select

(* One more cpu.                                                           *)
LEMMA SelectKeeps ==
  ASSUME NEW m \in 1..Len(Cpus), NEW limit \in Nat, NEW s,
         Selected(topo, s, m - 1, limit)
  PROVE  Selected(topo, Select(s, Cpus[m], limit), m, limit)
<1>1. s \in Seq(Nat) /\ Len(s) \in Nat /\ Len(s) <= limit
  BY DEF Selected
<1>2. PICK c, k : c = Cpus[m] /\ k = Key(topo, c)
  OBVIOUS
<1>3. c \in Nat /\ Len(Cpus) \in Nat
  BY <1>2, StartupAssumption
<1>4. FirstKeys(topo, m) = FirstKeys(topo, m - 1) \cup {k}
  <2>1. 1..m = 1..(m - 1) \cup {m}
    BY <1>3
  <2> QED
    BY <1>2, <2>1 DEF FirstKeys
<1>5. CASE Len(s) >= limit \/ k \in Keys(topo, s)
  <2>1. Select(s, Cpus[m], limit) = s
    BY <1>1, <1>2, <1>5, SelectIs
  <2>2. Selected(topo, s, m, limit)
    BY <1>1, <1>4, <1>5 DEF Selected
  <2> QED
    BY <2>1, <2>2
<1>6. CASE ~(Len(s) >= limit \/ k \in Keys(topo, s))
  <2>1. PICK a : a = Append(s, c)
    OBVIOUS
  <2>2. Select(s, Cpus[m], limit) = a
    BY <1>1, <1>2, <1>6, <2>1, SelectIs
  <2>3. /\ a \in Seq(Nat) /\ Len(a) = Len(s) + 1 /\ a[Len(a)] = c
        /\ \A i \in 1..Len(s) : a[i] = s[i]
    BY <1>1, <1>3, <2>1
  <2>4. 1..Len(a) = 1..Len(s) \cup {Len(a)}
    BY <1>1, <2>3
  <2>5. Keys(topo, a) = Keys(topo, s) \cup {k}
    BY <1>2, <2>3, <2>4 DEF Keys
  <2>6. ASSUME NEW i \in 1..Len(a), NEW j \in 1..Len(a),
               Key(topo, a[i]) = Key(topo, a[j])
        PROVE  i = j
    <3>1. \A h \in 1..Len(s) : Key(topo, a[h]) \in Keys(topo, s)
      BY <2>3 DEF Keys
    <3>2. k \notin Keys(topo, s) /\ Key(topo, a[Len(a)]) = k
      BY <1>2, <1>6, <2>3
    <3>3. CASE i \in 1..Len(s) /\ j \in 1..Len(s)
      <4>1. Key(topo, s[i]) = Key(topo, s[j])
        BY <2>3, <2>6, <3>3
      <4> QED
        BY <3>3, <4>1 DEF Selected
    <3>4. CASE i \in 1..Len(s) /\ j = Len(a)
      BY <2>6, <3>1, <3>2, <3>4, Zenon
    <3>5. CASE i = Len(a) /\ j \in 1..Len(s)
      BY <2>6, <3>1, <3>2, <3>5, Zenon
    <3> QED
      BY <2>4, <3>3, <3>4, <3>5
  <2>7. Len(a) <= limit
    BY <1>1, <1>6, <2>3
  <2>8. Keys(topo, s) \subseteq FirstKeys(topo, m - 1)
    BY DEF Selected
  <2>9. FirstKeys(topo, m - 1) \subseteq Keys(topo, s)
    BY <1>1, <1>6 DEF Selected
  <2>10. Selected(topo, a, m, limit)
    BY <1>4, <2>3, <2>5, <2>6, <2>7, <2>8, <2>9 DEF Selected
  <2> QED
    BY <2>2, <2>10
<1> QED
  BY <1>5, <1>6

(* Induction up to n, for the numbers of a set.                            *)
LEMMA Climb ==
  ASSUME NEW n \in Nat, NEW G, 0 \in G,
         \A m \in 1..n : m - 1 \in G => m \in G
  PROVE  n \in G
<1> DEFINE Bad == {m \in 0..n : m \notin G}
<1>1. SUFFICES ASSUME Bad # {} PROVE FALSE
  BY <1>1
<1>2. PICK m \in Bad : \A l \in Bad : m <= l
  <2>1. Bad \in SUBSET Nat
    OBVIOUS
  <2> HIDE DEF Bad
  <2> QED
    BY <1>1, <2>1, Least
<1>3. m \in 1..n
  BY <1>2
<1>4. m - 1 \in 0..n /\ m - 1 \notin Bad
  BY <1>2, <1>3
<1> QED
  BY <1>2, <1>3, <1>4

(* f[i] is what is selected from the first i cpus.                         *)
Picks(f, limit, n) ==
  /\ f[0] = <<>>
  /\ \A i \in 1..n : f[i] = Select(f[i - 1], Cpus[i], limit)

LEMMA PicksExist ==
  ASSUME NEW limit, NEW n \in Nat
  PROVE  \E f : Picks(f, limit, n)
<1> DEFINE G == {m \in 0..n : \E f : Picks(f, limit, m)}
<1>1. 0 \in G
  <2>1. PICK f : f = [i \in {0} |-> <<>>]
    OBVIOUS
  <2>2. f[0] = <<>> /\ 1..0 = {}
    BY <2>1
  <2>3. Picks(f, limit, 0)
    BY <2>2 DEF Picks
  <2> QED
    BY <2>3
<1>2. ASSUME NEW m \in 1..n, m - 1 \in G PROVE m \in G
  <2>1. PICK g : Picks(g, limit, m - 1)
    BY <1>2
  <2>2. PICK e : e = Select(g[m - 1], Cpus[m], limit)
    OBVIOUS
  <2>3. PICK h : h = [i \in 0..m |-> IF i = m THEN e ELSE g[i]]
    OBVIOUS
  <2>4. h[m] = e /\ \A i \in 0..(m - 1) : h[i] = g[i]
    BY <2>3
  <2>5. h[0] = <<>>
    BY <2>1, <2>4 DEF Picks
  <2>6. ASSUME NEW i \in 1..m PROVE h[i] = Select(h[i - 1], Cpus[i], limit)
    <3>1. h[i - 1] = g[i - 1]
      BY <2>4
    <3>2. CASE i = m
      BY <2>2, <2>4, <3>1, <3>2
    <3>3. CASE i # m
      <4>1. i \in 1..(m - 1) /\ h[i] = g[i]
        BY <2>4, <3>3
      <4>2. g[i] = Select(g[i - 1], Cpus[i], limit)
        BY <2>1, <4>1 DEF Picks
      <4> QED
        BY <3>1, <4>1, <4>2
    <3> QED
      BY <3>2, <3>3
  <2>7. Picks(h, limit, m)
    BY <2>5, <2>6 DEF Picks
  <2> QED
    BY <2>7
<1> HIDE DEF G
<1>3. n \in G
  BY <1>1, <1>2, Climb
<1> QED
  BY <1>3 DEF G

(* get_core_ids selects in this way from all cpus.                         *)
LEMMA CoreIdsPick ==
  ASSUME NEW limit, limit # 0
  PROVE  \E f : Picks(f, limit, Len(Cpus)) /\ get_core_ids(limit) = f[Len(Cpus)]
<1>1. Len(Cpus) \in Nat
  BY StartupAssumption
<1> DEFINE Fix(f) == f = [i \in 0..Len(Cpus) |->
                            IF i = 0 THEN <<>> ELSE Select(f[i - 1], Cpus[i], limit)]
           c == CHOOSE f : Fix(f)
<1>2. get_core_ids(limit) = c[Len(Cpus)]
  BY DEF get_core_ids
<1>3. PICK g : Picks(g, limit, Len(Cpus))
  BY <1>1, PicksExist
<1>4. PICK f : f = [i \in 0..Len(Cpus) |-> g[i]]
  OBVIOUS
<1>5. Fix(f)
  <2>1. ASSUME NEW i \in 0..Len(Cpus)
        PROVE  f[i] = IF i = 0 THEN <<>> ELSE Select(f[i - 1], Cpus[i], limit)
    <3>1. f[i] = g[i]
      BY <1>4
    <3>2. CASE i = 0
      BY <1>3, <3>1, <3>2 DEF Picks
    <3>3. CASE i # 0
      <4>1. i \in 1..Len(Cpus) /\ f[i - 1] = g[i - 1]
        BY <1>1, <1>4, <3>3
      <4>2. g[i] = Select(g[i - 1], Cpus[i], limit)
        BY <1>3, <4>1 DEF Picks
      <4> QED
        BY <3>1, <3>3, <4>1, <4>2
    <3> QED
      BY <3>2, <3>3
  <2>2. f = [i \in 0..Len(Cpus) |-> f[i]]
    BY <1>4
  <2> QED
    BY <2>1, <2>2
<1> HIDE DEF Fix
<1>6. Fix(c)
  BY <1>5, Zenon
<1> HIDE DEF c
<1>7. Picks(c, limit, Len(Cpus))
  <2>1. \A i \in 0..Len(Cpus) :
          c[i] = IF i = 0 THEN <<>> ELSE Select(c[i - 1], Cpus[i], limit)
    BY <1>6 DEF Fix
  <2> QED
    BY <1>1, <2>1 DEF Picks
<1> QED
  BY <1>2, <1>7

(* Cpus with different keys are as many as their keys.                     *)
LEMMA KeysCounted ==
  ASSUME NEW t, NEW s \in Seq(Nat),
         \A i, j \in 1..Len(s) : Key(t, s[i]) = Key(t, s[j]) => i = j
  PROVE  Cardinality(Keys(t, s)) = Len(s)
<1>1. Len(s) \in Nat
  OBVIOUS
<1>2. PICK f : f = [i \in 1..Len(s) |-> Key(t, s[i])]
  OBVIOUS
<1>3. f \in [1..Len(s) -> Keys(t, s)] /\ \A i \in 1..Len(s) : f[i] = Key(t, s[i])
  BY <1>2 DEF Keys
<1>4. f \in Injection(1..Len(s), Keys(t, s))
  BY <1>3 DEF Injection, IsInjective
<1>5. \A k \in Keys(t, s) : \E i \in 1..Len(s) : f[i] = k
  BY <1>3 DEF Keys
<1>6. f \in Surjection(1..Len(s), Keys(t, s))
  BY <1>3, <1>5 DEF Surjection
<1>7. ExistsBijection(1..Len(s), Keys(t, s))
  BY <1>4, <1>6, Zenon DEF ExistsBijection, Bijection
<1> QED
  BY <1>1, <1>7, FS_CountingElements

LEMMA KeysFinite ==
  ASSUME NEW t, NEW n \in Nat
  PROVE  IsFiniteSet(FirstKeys(t, n))
<1>1. PICK f : f = [i \in 1..n |-> Key(t, Cpus[i])]
  OBVIOUS
<1>2. f \in Surjection(1..n, FirstKeys(t, n))
  BY <1>1 DEF FirstKeys, Surjection
<1>3. IsFiniteSet(1..n)
  BY FS_Interval
<1> QED
  BY <1>2, <1>3, FS_Surjection

(* The loops run on different cores, on as many as were asked for or as    *)
(* there are.                                                              *)
Placed(t, cs, limit) ==
  /\ cs \in Seq(Nat)
  /\ \A i, j \in 1..Len(cs) : Key(t, cs[i]) = Key(t, cs[j]) => i = j
  /\ Len(cs) = Min({limit, Cardinality(FirstKeys(t, Len(Cpus)))})

LEMMA CoreIdsPlaced ==
  ASSUME NEW limit \in Nat \ {0}
  PROVE  Placed(topo, get_core_ids(limit), limit)
<1>1. Len(Cpus) \in Nat
  BY StartupAssumption
<1>2. PICK f : Picks(f, limit, Len(Cpus)) /\ get_core_ids(limit) = f[Len(Cpus)]
  BY CoreIdsPick
<1> DEFINE G == {m \in 0..Len(Cpus) : Selected(topo, f[m], m, limit)}
<1>3. 0 \in G
  <2>1. f[0] = <<>>
    BY <1>2 DEF Picks
  <2>2. 1..0 = {} /\ Len(<<>>) = 0 /\ <<>> \in Seq(Nat)
    OBVIOUS
  <2>3. Keys(topo, <<>>) = {} /\ FirstKeys(topo, 0) = {}
    BY <2>2 DEF Keys, FirstKeys
  <2>4. Selected(topo, <<>>, 0, limit)
    BY <2>2, <2>3 DEF Selected
  <2> QED
    BY <1>1, <2>1, <2>4
<1>4. ASSUME NEW m \in 1..Len(Cpus), m - 1 \in G PROVE m \in G
  <2>1. f[m] = Select(f[m - 1], Cpus[m], limit)
    BY <1>2 DEF Picks
  <2>2. Selected(topo, f[m - 1], m - 1, limit)
    BY <1>4
  <2>3. Selected(topo, f[m], m, limit)
    BY <2>1, <2>2, SelectKeeps
  <2> QED
    BY <2>3
<1> HIDE DEF G
<1>5. Len(Cpus) \in G
  BY <1>1, <1>3, <1>4, Climb
<1>6. PICK s, K, n : /\ s = f[Len(Cpus)] /\ K = FirstKeys(topo, Len(Cpus))
                     /\ n = Cardinality(K)
  OBVIOUS
<1>7. Selected(topo, s, Len(Cpus), limit)
  BY <1>5, <1>6 DEF G
<1>8. /\ s \in Seq(Nat) /\ Len(s) \in Nat /\ Len(s) <= limit
      /\ \A i, j \in 1..Len(s) : Key(topo, s[i]) = Key(topo, s[j]) => i = j
      /\ Keys(topo, s) \subseteq K
      /\ Len(s) < limit => K \subseteq Keys(topo, s)
  BY <1>6, <1>7 DEF Selected
<1>9. Cardinality(Keys(topo, s)) = Len(s)
  BY <1>8, KeysCounted
<1>10. IsFiniteSet(K)
  BY <1>1, <1>6, KeysFinite
<1>11. n \in Nat /\ Len(s) <= n
  BY <1>6, <1>8, <1>9, <1>10, FS_Subset, FS_CardinalityType
<1>12. Len(s) < limit => Len(s) = n
  <2>1. ASSUME Len(s) < limit PROVE Keys(topo, s) = K
    BY <1>8, <2>1
  <2> QED
    BY <1>6, <1>9, <2>1
<1>13. Min({limit, n}) = Len(s)
  <2>1. {limit, n} \in SUBSET Nat /\ {limit, n} # {}
    BY <1>11
  <2>2. Min({limit, n}) \in {limit, n} /\ \A y \in {limit, n} : Min({limit, n}) <= y
    BY <2>1, MinIsLeast, Zenon
  <2> QED
    BY <1>8, <1>11, <1>12, <2>2
<1> QED
  BY <1>2, <1>6, <1>8, <1>13 DEF Placed

(* The number of loops asked for, and where they have been put.            *)
PlaceInv ==
  /\ topo \in Topologies
  /\ "num_event_loop" \in DOMAIN asked => asked["num_event_loop"] \in Words
  /\ base["num_event_loop"] \in Words
  /\ "num_event_loop" \in DOMAIN opts
  /\ opts["num_event_loop"] \in Words
  /\ Up /\ opts["num_event_loop"] > 0 => Placed(topo, cores, opts["num_event_loop"])

LEMMA PlaceInit == Init => PlaceInv
<1> SUFFICES ASSUME Init PROVE PlaceInv
  OBVIOUS
<1>1. /\ phase = "configure" /\ DOMAIN asked = {} /\ topo \in Topologies
      /\ base = DefaultOptions /\ opts = DefaultOptions
  BY DEF Init
<1>2. /\ "num_event_loop" \in DOMAIN DefaultOptions
      /\ DefaultOptions["num_event_loop"] = 0
  BY DEF DefaultOptions
<1>3. 0 \in Words
  BY SizeConstants, PowersGrow, StartupAssumption DEF Words
<1> QED
  BY <1>1, <1>2, <1>3 DEF PlaceInv, Up

(* Steps that only go on, or that leave the loops where they are.          *)
LEMMA PlaceStays ==
  ASSUME PlaceInv, UNCHANGED <<config, topo>>,
         Up' => Up /\ cores' = cores
  PROVE  PlaceInv'
  BY DEF PlaceInv, Up, config, Words

LEMMA PlaceStep ==
  ASSUME PlaceInv, [Next]_vars
  PROVE  PlaceInv'
<1>1. CASE \E f \in DOMAIN Offer : \E v \in Offer[f] : Set(f, v)
  <2>1. PICK f \in DOMAIN Offer : \E v \in Offer[f] : Set(f, v)
    BY <1>1
  <2>2. PICK v \in Offer[f] : Set(f, v)
    BY <2>1
  <2>3. /\ phase' = "configure" /\ topo' = topo /\ base' = base /\ opts' = opts
        /\ asked' = [g \in DOMAIN asked \cup {f} |->
                       IF g = f THEN v ELSE asked[g]]
    BY <2>2 DEF Set, input
  <2>4. f = "num_event_loop" => v \in Words
    BY StartupAssumption
  <2>5. "num_event_loop" \in DOMAIN asked' => asked'["num_event_loop"] \in Words
    BY <2>3, <2>4 DEF PlaceInv
  <2> QED
    BY <2>3, <2>5 DEF PlaceInv, Up, Words
<1>2. CASE Build
  <2>1. /\ phase' = "built" /\ topo' = topo /\ asked' = asked /\ base' = base
        /\ opts' = [Requested EXCEPT
             !.max_batch_size = IF @ > 0 THEN ceil_to_power_of_two(@)
                                         ELSE DefaultBatch,
             !.read_buffer_cap = normalize_buffer_size(@),
             !.write_buffer_cap = normalize_buffer_size(@)]
    BY <1>2 DEF Build, input
  <2>2. "num_event_loop" \in Settings
    BY DEF Settings, DefaultOptions
  <2>3. /\ DOMAIN Requested = Settings
        /\ Requested["num_event_loop"] = IF "num_event_loop" \in DOMAIN asked
                                         THEN asked["num_event_loop"]
                                         ELSE base["num_event_loop"]
    BY <2>2 DEF Requested
  <2>4. Requested["num_event_loop"] \in Words
    BY <2>3 DEF PlaceInv
  <2>5. /\ "num_event_loop" \in DOMAIN opts'
        /\ opts'["num_event_loop"] = Requested["num_event_loop"]
    BY <2>1, <2>2, <2>3
  <2> QED
    BY <2>1, <2>4, <2>5 DEF PlaceInv, Up, Words
<1>3. CASE with_options
  <2>1. /\ phase' = "configure" /\ topo' = topo /\ DOMAIN asked' = {}
        /\ base' = opts /\ opts' = opts
    BY <1>3 DEF with_options, input
  <2> QED
    BY <2>1 DEF PlaceInv, Up, Words
<1>4. CASE \E list \in Lists : normalize(list)
  <2>1. PICK list \in Lists : normalize(list)
    BY <1>4
  <2>2. /\ phase' \in {"rejected", "ready"} /\ topo' = topo
        /\ asked' = asked /\ base' = base
    BY <2>1 DEF normalize
  <2>3. \/ opts' = opts
        \/ opts' = [opts EXCEPT !.reuse_port = @ /\ ~HasUnix(Parsed(list))]
    BY <2>1 DEF normalize
  <2>4. /\ "num_event_loop" \in DOMAIN opts'
        /\ opts'["num_event_loop"] = opts["num_event_loop"]
    BY <2>3 DEF PlaceInv
  <2> QED
    BY <2>2, <2>4 DEF PlaceInv, Up, Words
<1>5. CASE Run
  <2>1. /\ UNCHANGED <<asked, base, opts, topo>>
        /\ cores' = get_core_ids(opts["num_event_loop"])
    BY <1>5 DEF Run, config, input
  <2>2. opts["num_event_loop"] \in Nat
    BY PowersGrow, StartupAssumption DEF PlaceInv, Words
  <2>3. opts["num_event_loop"] > 0 => Placed(topo, cores', opts["num_event_loop"])
    BY <2>1, <2>2, CoreIdsPlaced
  <2> QED
    BY <2>1, <2>3 DEF PlaceInv, Words
<1>6. CASE BuildPanics \/ BindFails \/ Exit \/ Restart
  <2>1. UNCHANGED <<config, topo>>
    BY <1>6 DEF BuildPanics, BindFails, Exit, Restart, input
  <2>2. ~Up'
    BY <1>6 DEF BuildPanics, BindFails, Exit, Restart, Fail, Up
  <2> QED
    BY <2>1, <2>2, PlaceStays
<1>7. CASE \E b \in todo : bind(b)
  <2>1. UNCHANGED <<config, topo, cores>>
    BY <1>7 DEF bind, input
  <2>2. Up
    BY <1>7 DEF bind, Up
  <2> QED
    BY <2>1, <2>2, PlaceStays
<1>8. CASE AllBound \/ Expire \/ UNCHANGED vars
  <2>1. UNCHANGED <<config, topo, cores>>
    BY <1>8 DEF AllBound, Expire, vars, input
  <2>2. Up' => Up
    BY <1>8 DEF AllBound, Expire, vars, Up
  <2> QED
    BY <2>1, <2>2, PlaceStays
<1> QED
  BY <1>1, <1>2, <1>3, <1>4, <1>5, <1>6, <1>7, <1>8 DEF Next

(* No two loops share a physical core that the system tells apart, and, if *)
(* it tells all of them apart, there are as many loops as were asked for   *)
(* or as there are cores, for any machine and any number of loops          *)
(* (options.rs 331-392).                                                   *)
THEOREM LoopsStayPlaced == Spec => []LoopsPlaced
<1>1. PlaceInv => LoopsPlaced
  <2> SUFFICES ASSUME PlaceInv, phase = "running", opts.num_event_loop > 0
               PROVE  /\ \A i, j \in DOMAIN cores :
                           Readable(cores[i]) /\ topo[cores[i]] = topo[cores[j]] => i = j
                      /\ (\A i \in DOMAIN Cpus : Readable(Cpus[i])) =>
                           Len(cores) = Min({opts.num_event_loop,
                                             Cardinality(PhysicalCores)})
    BY DEF LoopsPlaced
  <2>1. Placed(topo, cores, opts["num_event_loop"])
    BY DEF PlaceInv, Up
  <2>2. DOMAIN cores = 1..Len(cores)
    BY <2>1 DEF Placed
  <2>3. ASSUME NEW i \in DOMAIN cores, NEW j \in DOMAIN cores,
               Readable(cores[i]), topo[cores[i]] = topo[cores[j]]
        PROVE  i = j
    <3>1. Key(topo, cores[i]) = Key(topo, cores[j])
      BY <2>3 DEF Key, Readable
    <3> QED
      BY <2>1, <2>2, <3>1 DEF Placed
  <2>4. ASSUME \A i \in DOMAIN Cpus : Readable(Cpus[i])
        PROVE  Len(cores) = Min({opts.num_event_loop, Cardinality(PhysicalCores)})
    <3>1. DOMAIN Cpus = 1..Len(Cpus)
      BY StartupAssumption
    <3>2. ASSUME NEW i \in DOMAIN Cpus PROVE Key(topo, Cpus[i]) = topo[Cpus[i]]
      <4>1. topo[Cpus[i]] \in [socket : Nat, core : Nat]
        BY StartupAssumption DEF PlaceInv
      <4>2. topo[Cpus[i]].socket # Unreadable /\ topo[Cpus[i]].core # Unreadable
        BY <2>4 DEF Readable
      <4> QED
        BY <4>1, <4>2 DEF Key
    <3>3. PhysicalCores = FirstKeys(topo, Len(Cpus))
      BY <3>1, <3>2 DEF PhysicalCores, FirstKeys
    <3> QED
      BY <2>1, <3>3 DEF Placed
  <2> QED
    BY <2>3, <2>4
<1>2. PlaceInv /\ [Next]_vars => PlaceInv'
  BY PlaceStep
<1> QED
  BY <1>1, <1>2, PlaceInit, PTL DEF Spec
=============================================================================
