-------------------------- MODULE EventLoopProofs --------------------------
(***************************************************************************)
(* Proofs about EventLoop, for any sockets, slots, handlers, options and   *)
(* limits.                                                                 *)
(***************************************************************************)
EXTENDS EventLoop, FiniteSetTheorems, TLAPS

(* The sockets on their way to the loop as a Register command.             *)
Registering == {s \in Socks : sk[s].st = "queued"}

(* What is in the channels: only Close may overflow into the common one, a *)
(* socket is registered at most once, and an AsyncWrite names one of the n *)
(* registrations so far.                                                   *)
QueueOK(q, n, waiting) ==
  /\ \A i \in DOMAIN q.common : q.common[i].op = "Close"
  /\ \A i \in DOMAIN q.urgent :
       /\ q.urgent[i].op = "Register" => q.urgent[i].sock \in waiting
       /\ q.urgent[i].op = "AsyncWrite" => q.urgent[i].seq <= n
  /\ \A i, j \in DOMAIN q.urgent :
       /\ q.urgent[i].op = "Register" /\ q.urgent[j].op = "Register"
       /\ q.urgent[i].sock = q.urgent[j].sock
       => i = j

QueueInv == QueueOK(queue, Len(gfds), Registering)

(* Every connection in the slab has a socket of its own, which is open,    *)
(* holds only bytes of that socket, and is the one its gfd was issued for. *)
(* Nothing else is open.                                                   *)
OwnInv ==
  \A k \in Keys : Live(k) =>
    /\ conns[k].in \subseteq {conns[k].sock}
    /\ conns[k].io \subseteq {conns[k].sock}
    /\ conns[k].out \subseteq {conns[k].sock}
    /\ sk[conns[k].sock].st = "open"
    /\ conns[k].seq \in DOMAIN gfds
    /\ gfds[conns[k].seq] = [sock |-> conns[k].sock, key |-> k, kept |-> TRUE]

UniqueInv ==
  /\ \A k, l \in Keys :
       Live(k) /\ Live(l) /\ conns[k].sock = conns[l].sock => k = l
  /\ \A s \in Socks : sk[s].st = "open" => Admitted(s)

LiveKeys == {k \in Keys : Live(k)}

CountInv == IsFiniteSet(LiveKeys) /\ count = Cardinality(LiveKeys)

(* on_close is called when a kept socket passes from open to closed.       *)
ClosesInv ==
  \A s \in Socks :
    /\ closes[s] = IF sk[s].st = "closed" /\ Kept(s) THEN 1 ELSE 0
    /\ sk[s].st \in {"new", "queued"} => ~Kept(s)

SockInv == \A s \in Socks : sk[s].rx + sk[s].left <= MaxRx

SlabInv == OwnInv /\ UniqueInv /\ CountInv /\ ClosesInv /\ SockInv

(* What the steps on connections, sockets and channels keep.               *)
CoreInv ==
  /\ SlabOK /\ sk \in [Socks -> Sockets] /\ queue \in Queues
  /\ sent \in [Socks -> SUBSET Socks] /\ closes \in [Socks -> Nat]
  /\ SlabInv /\ QueueInv /\ OutputIsolation

(* The loop's own state: an operation under way has a slot, and a loop     *)
(* that has shut down has no connection.                                   *)
CurInv ==
  /\ pc \in {"write", "read", "rereg"} => cur.key \in Keys
  /\ pc = "stopped" => \A k \in Keys : ~Live(k)

LoopInv ==
  /\ ControlOK /\ app \in 0..MaxApp /\ CurInv
  /\ got \in [Socks -> SUBSET Socks] /\ InputIsolation

Inv == scene \in Scenes /\ CoreInv /\ LoopInv

-----------------------------------------------------------------------------
(* The channels.                                                           *)

(* The fields of a command.                                                *)
LEMMA CommandFields ==
  /\ \A c \in Commands :
       /\ c.op \in {"Close", "Read", "Write", "AsyncWrite", "Register", "Shutdown"}
       /\ c.op \in {"Close", "Read", "Write"} => c.key \in Keys
       /\ c.op = "AsyncWrite" => c.seq \in Nat \ {0}
       /\ c.op = "Register" => c.sock \in Socks
  /\ \A op \in {"Close", "Read", "Write"}, k \in Keys :
       [op |-> op, key |-> k] \in Commands
  /\ \A s \in Socks : [op |-> "Register", sock |-> s] \in Commands
  BY DEF Commands, KeyCommands

(* The elements of a sequence,                                             *)
LEMMA SeqElements ==
  ASSUME NEW S, NEW q \in Seq(S)
  PROVE  /\ DOMAIN q = 1..Len(q) /\ Len(q) \in Nat
         /\ \A i \in DOMAIN q : q[i] \in S
  OBVIOUS

(* of one with an element more,                                            *)
LEMMA AppendElements ==
  ASSUME NEW S, NEW q \in Seq(S), NEW e \in S
  PROVE  /\ Append(q, e) \in Seq(S) /\ Len(Append(q, e)) = Len(q) + 1
         /\ DOMAIN q = 1..Len(q) /\ Len(q) \in Nat
         /\ DOMAIN Append(q, e) = 1..(Len(q) + 1)
         /\ \A i \in 1..Len(q) : Append(q, e)[i] = q[i]
         /\ Append(q, e)[Len(q) + 1] = e
  OBVIOUS

(* and of one without the first.                                           *)
LEMMA TailElements ==
  ASSUME NEW S, NEW q \in Seq(S), q # <<>>
  PROVE  /\ Tail(q) \in Seq(S) /\ Len(Tail(q)) = Len(q) - 1
         /\ DOMAIN q = 1..Len(q) /\ Len(q) \in Nat \ {0}
         /\ 1 \in DOMAIN q /\ Head(q) = q[1] /\ Head(q) \in S
         /\ DOMAIN Tail(q) = 1..(Len(q) - 1)
         /\ \A i \in DOMAIN Tail(q) : i + 1 \in DOMAIN q /\ Tail(q)[i] = q[i + 1]
  OBVIOUS

(* A command that is not Register is added where QueueOK allows it.        *)
LEMMA PushOK ==
  ASSUME NEW q \in Queues, NEW n, NEW W, QueueOK(q, n, W),
         NEW c \in Commands, c.op # "Register",
         c.op = "AsyncWrite" => c.seq <= n
  PROVE  Push(q, c) \in Queues /\ QueueOK(Push(q, c), n, W)
<1>1. q.urgent \in Seq(Commands) /\ q.common \in Seq(Commands)
  BY DEF Queues
<1>2. /\ Append(q.urgent, c) \in Seq(Commands)
      /\ Append(q.common, c) \in Seq(Commands)
      /\ Len(q.urgent) \in Nat /\ Len(q.common) \in Nat
      /\ DOMAIN q.urgent = 1..Len(q.urgent)
      /\ DOMAIN q.common = 1..Len(q.common)
      /\ DOMAIN Append(q.urgent, c) = 1..(Len(q.urgent) + 1)
      /\ DOMAIN Append(q.common, c) = 1..(Len(q.common) + 1)
      /\ \A i \in 1..Len(q.urgent) : Append(q.urgent, c)[i] = q.urgent[i]
      /\ \A i \in 1..Len(q.common) : Append(q.common, c)[i] = q.common[i]
      /\ Append(q.urgent, c)[Len(q.urgent) + 1] = c
      /\ Append(q.common, c)[Len(q.common) + 1] = c
  BY <1>1, AppendElements
<1>3. CASE Priority(c.op) = "Low" /\ Len(q.urgent) >= MaxUrgent
  <2>1. Push(q, c) = [q EXCEPT !.common = Append(@, c)] /\ c.op = "Close"
    BY <1>3 DEF Push, Priority
  <2>2. Push(q, c) = [urgent |-> q.urgent, common |-> Append(q.common, c)]
    BY <2>1 DEF Queues
  <2>3. \A i \in 1..(Len(q.common) + 1) : Append(q.common, c)[i].op = "Close"
    <3> SUFFICES ASSUME NEW i \in 1..(Len(q.common) + 1)
                 PROVE  Append(q.common, c)[i].op = "Close"
      OBVIOUS
    <3>1. CASE i = Len(q.common) + 1
      BY <1>2, <2>1, <3>1
    <3>2. CASE i \in 1..Len(q.common)
      BY <1>2, <3>2 DEF QueueOK
    <3> QED
      BY <1>2, <3>1, <3>2
  <2> DEFINE u == Append(q.common, c)
  <2>4. u \in Seq(Commands) /\ \A i \in DOMAIN u : u[i].op = "Close"
    BY <1>2, <2>3
  <2> HIDE DEF u
  <2>5. Push(q, c) = [urgent |-> q.urgent, common |-> u]
    BY <2>2 DEF u
  <2> QED
    BY <1>1, <2>4, <2>5 DEF QueueOK, Queues
<1>4. CASE ~(Priority(c.op) = "Low" /\ Len(q.urgent) >= MaxUrgent)
  <2>1. Push(q, c) = [q EXCEPT !.urgent = Append(@, c)]
    BY <1>4 DEF Push
  <2>2. Push(q, c) = [urgent |-> Append(q.urgent, c), common |-> q.common]
    BY <2>1 DEF Queues
  <2> DEFINE u == Append(q.urgent, c)
  <2>3. \A i \in 1..(Len(q.urgent) + 1) :
          \/ i \in DOMAIN q.urgent /\ u[i] = q.urgent[i]
          \/ i \notin DOMAIN q.urgent /\ u[i] = c
    BY <1>2
  <2>4. \A i \in DOMAIN u : /\ u[i].op = "Register" => u[i].sock \in W
                            /\ u[i].op = "AsyncWrite" => u[i].seq <= n
    BY <1>2, <2>3 DEF QueueOK
  <2>5. \A i, j \in DOMAIN u :
          /\ u[i].op = "Register" /\ u[j].op = "Register"
          /\ u[i].sock = u[j].sock
          => i = j
    BY <1>2, <2>3 DEF QueueOK
  <2>6. u \in Seq(Commands)
    BY <1>2
  <2> HIDE DEF u
  <2>7. Push(q, c) = [urgent |-> u, common |-> q.common]
    BY <2>2 DEF u
  <2> QED
    BY <1>1, <2>4, <2>5, <2>6, <2>7 DEF QueueOK, Queues
<1> QED
  BY <1>3, <1>4

(* The command taken next, and the channels without it.                    *)
LEMMA RestOK ==
  ASSUME NEW q \in Queues, NEW n, NEW W, QueueOK(q, n, W), Queued(q)
  PROVE  /\ NextCommand(q) \in Commands
         /\ Rest(q) \in Queues /\ QueueOK(Rest(q), n, W)
         /\ NextCommand(q).op = "AsyncWrite" => NextCommand(q).seq <= n
         /\ NextCommand(q).op = "Register" =>
              /\ NextCommand(q).sock \in W
              /\ QueueOK(Rest(q), n, W \ {NextCommand(q).sock})
<1>1. q.urgent \in Seq(Commands) /\ q.common \in Seq(Commands)
  BY DEF Queues
<1>2. CASE q.urgent # <<>>
  <2> DEFINE u == q.urgent
  <2>1. /\ Tail(u) \in Seq(Commands) /\ DOMAIN u = 1..Len(u) /\ Len(u) \in Nat \ {0}
        /\ 1 \in DOMAIN u /\ Head(u) = u[1] /\ Head(u) \in Commands
        /\ DOMAIN Tail(u) = 1..(Len(u) - 1)
        /\ \A i \in DOMAIN Tail(u) : i + 1 \in DOMAIN u /\ Tail(u)[i] = u[i + 1]
    BY <1>1, <1>2, TailElements
  <2>2. Rest(q) = [urgent |-> Tail(u), common |-> q.common]
    BY <1>2 DEF Rest, Queues
  <2>3. NextCommand(q) = u[1]
    BY <1>2, <2>1 DEF NextCommand
  <2>4. Rest(q) \in Queues /\ QueueOK(Rest(q), n, W)
    BY <1>1, <2>1, <2>2 DEF QueueOK, Queues
  <2>5. ASSUME u[1].op = "Register"
        PROVE  QueueOK(Rest(q), n, W \ {u[1].sock})
    <3>1. \A i \in DOMAIN Tail(u) :
            Tail(u)[i].op = "Register" => Tail(u)[i].sock # u[1].sock
      BY <2>1, <2>5 DEF QueueOK
    <3> QED
      BY <2>2, <2>4, <3>1 DEF QueueOK
  <2> QED
    BY <2>1, <2>3, <2>4, <2>5 DEF QueueOK
<1>3. CASE q.urgent = <<>>
  <2> DEFINE u == q.common
  <2>1. /\ u # <<>> /\ Tail(u) \in Seq(Commands) /\ DOMAIN u = 1..Len(u)
        /\ Len(u) \in Nat \ {0}
        /\ 1 \in DOMAIN u /\ Head(u) = u[1] /\ Head(u) \in Commands
        /\ DOMAIN Tail(u) = 1..(Len(u) - 1)
        /\ \A i \in DOMAIN Tail(u) : i + 1 \in DOMAIN u /\ Tail(u)[i] = u[i + 1]
    BY <1>1, <1>3, TailElements DEF Queued
  <2>2. Rest(q) = [urgent |-> q.urgent, common |-> Tail(u)]
    BY <1>3 DEF Rest, Queues
  <2>3. NextCommand(q) = u[1] /\ u[1].op = "Close"
    BY <1>3, <2>1 DEF NextCommand, QueueOK
  <2>4. Rest(q) \in Queues /\ QueueOK(Rest(q), n, W)
    BY <1>1, <2>1, <2>2 DEF QueueOK, Queues
  <2> QED
    BY <2>1, <2>3, <2>4
<1> QED
  BY <1>2, <1>3

(* More registrations, and more sockets on their way.                      *)
LEMMA QueueWeaken ==
  ASSUME NEW q \in Queues, NEW n \in Nat, NEW m \in Nat, n <= m,
         NEW W, NEW V, W \subseteq V, QueueOK(q, n, W)
  PROVE  QueueOK(q, m, V)
<1>1. \A i \in DOMAIN q.urgent : q.urgent[i] \in Commands
  BY DEF Queues
<1>2. \A i \in DOMAIN q.urgent :
        q.urgent[i].op = "AsyncWrite" => q.urgent[i].seq \in Nat
  BY <1>1, CommandFields
<1> QED
  BY <1>2 DEF QueueOK

-----------------------------------------------------------------------------
(* One connection in the middle of a step.                                 *)
Steps ==
  [key : Keys, c : Connections, x : Sockets, q : Queues, sent : SUBSET Socks,
   ok : BOOLEAN, act : {"None", "Close", "Shutdown"}]

(* The occupant of slot k with gfd g and socket s, which is open: it holds *)
(* and has written nothing but its own bytes.                              *)
StepOK(r, k, s, g, n, W) ==
  /\ r \in Steps
  /\ r.key = k /\ r.c.sock = s /\ r.c.seq = g
  /\ r.c.in \subseteq {s} /\ r.c.io \subseteq {s} /\ r.c.out \subseteq {s}
  /\ r.sent \subseteq {s}
  /\ r.x.st = "open" /\ r.x.rx + r.x.left <= MaxRx
  /\ QueueOK(r.q, n, W)

(* The fields of a step.                                                   *)
LEMMA StepFields ==
  ASSUME NEW r \in Steps
  PROVE  /\ r.key \in Keys /\ r.c \in Connections /\ r.x \in Sockets
         /\ r.q \in Queues /\ r.sent \subseteq Socks /\ r.ok \in BOOLEAN
         /\ r.act \in {"None", "Close", "Shutdown"}
         /\ r.c.sock \in Socks /\ r.c.in \subseteq Socks /\ r.c.io \subseteq Socks
         /\ r.c.out \subseteq Socks /\ r.c.seq \in Nat /\ r.c.loose \in BOOLEAN
         /\ r.x.rx \in 0..MaxRx /\ r.x.left \in 0..MaxRx /\ r.x.err \in BOOLEAN
         /\ r.x.room \in BOOLEAN
  BY DEF Steps, Connections, Sockets

(* Connection::write keeps a step in order when the bytes are its own.     *)
LEMMA WriteOK ==
  ASSUME NEW r, NEW k, NEW s \in Socks, NEW g, NEW n, NEW W,
         StepOK(r, k, s, g, n, W), NEW d \in WriteOutcomes(r, s)
  PROVE  StepOK(d, k, s, g, n, W) /\ d.q = r.q /\ d.act = r.act
<1>1. r \in Steps
  BY DEF StepOK
<1>2. r.c \in Connections /\ r.x \in Sockets
  BY <1>1 DEF Steps
<1> DEFINE c1 == [r.c EXCEPT !.out = @ \cup {s}]
           keep == [r EXCEPT !.c.out = @ \cup {s}]
<1>3. /\ c1 \in Connections /\ c1.sock = r.c.sock /\ c1.seq = r.c.seq
      /\ c1.in = r.c.in /\ c1.io = r.c.io /\ c1.out = r.c.out \cup {s}
  BY <1>2 DEF Connections
<1>4. /\ keep \in Steps /\ keep.c = c1 /\ keep.key = r.key /\ keep.x = r.x
      /\ keep.q = r.q /\ keep.sent = r.sent /\ keep.act = r.act
  BY <1>1, <1>3 DEF Steps
<1>5. StepOK(keep, k, s, g, n, W)
  BY <1>3, <1>4 DEF StepOK
<1> HIDE DEF c1, keep
<1>6. CASE d = keep
  BY <1>4, <1>5, <1>6
<1>7. CASE d = [r EXCEPT !.ok = FALSE] \/ d = [r EXCEPT !.sent = @ \cup {s}]
  <2>1. r.sent \cup {s} \subseteq Socks
    BY <1>1 DEF Steps
  <2>2. /\ d \in Steps /\ d.c = r.c /\ d.key = r.key /\ d.x = r.x
        /\ d.q = r.q /\ d.act = r.act
    BY <1>1, <1>7, <2>1 DEF Steps
  <2>3. d.sent = r.sent \/ d.sent = r.sent \cup {s}
    BY <1>1, <1>7 DEF Steps
  <2> QED
    BY <2>2, <2>3 DEF StepOK
<1>8. CASE d = [keep EXCEPT !.sent = @ \cup {s}, !.x.room = FALSE]
  <2>1. /\ [keep.x EXCEPT !.room = FALSE] \in Sockets
        /\ [keep.x EXCEPT !.room = FALSE].st = keep.x.st
        /\ [keep.x EXCEPT !.room = FALSE].rx = keep.x.rx
        /\ [keep.x EXCEPT !.room = FALSE].left = keep.x.left
    BY <1>2, <1>4 DEF Sockets
  <2>2. /\ d \in Steps /\ d.c = keep.c /\ d.key = keep.key
        /\ d.x = [keep.x EXCEPT !.room = FALSE] /\ d.sent = keep.sent \cup {s}
        /\ d.q = keep.q /\ d.act = keep.act
    BY <1>4, <1>8, <2>1 DEF Steps
  <2> QED
    BY <1>4, <1>5, <2>1, <2>2 DEF StepOK
<1> QED
  BY <1>6, <1>7, <1>8 DEF WriteOutcomes, keep

(* So does the loop over out_buffer.                                       *)
LEMMA FlushOK ==
  ASSUME NEW r, NEW k, NEW s \in Socks, NEW g, NEW n, NEW W,
         StepOK(r, k, s, g, n, W), NEW d \in FlushOutcomes(r)
  PROVE  StepOK(d, k, s, g, n, W) /\ d.q = r.q /\ d.act = r.act
<1>1. r \in Steps
  BY DEF StepOK
<1>2. r.c \in Connections /\ r.x \in Sockets
  BY <1>1 DEF Steps
<1>3. CASE d = r \/ d = [r EXCEPT !.ok = FALSE]
  <2>1. /\ d \in Steps /\ d.c = r.c /\ d.key = r.key /\ d.x = r.x
        /\ d.q = r.q /\ d.act = r.act /\ d.sent = r.sent
    BY <1>1, <1>3 DEF Steps
  <2> QED
    BY <2>1 DEF StepOK
<1>4. CASE d = [r EXCEPT !.sent = @ \cup r.c.out, !.c.out = {}]
  <2> DEFINE c1 == [r.c EXCEPT !.out = {}]
  <2>1. /\ c1 \in Connections /\ c1.sock = r.c.sock /\ c1.seq = r.c.seq
        /\ c1.in = r.c.in /\ c1.io = r.c.io /\ c1.out = {} /\ r.c.out \subseteq Socks
    BY <1>2 DEF Connections
  <2>2. /\ d \in Steps /\ d.c = c1 /\ d.key = r.key /\ d.x = r.x
        /\ d.q = r.q /\ d.act = r.act /\ d.sent = r.sent \cup r.c.out
    BY <1>1, <1>4, <2>1 DEF Steps
  <2> QED
    BY <2>1, <2>2 DEF StepOK
<1>5. CASE d = [r EXCEPT !.sent = @ \cup r.c.out, !.x.room = FALSE]
  <2> DEFINE x1 == [r.x EXCEPT !.room = FALSE]
  <2>1. /\ x1 \in Sockets /\ x1.st = r.x.st /\ x1.rx = r.x.rx
        /\ x1.left = r.x.left /\ r.c.out \subseteq Socks
    BY <1>2 DEF Sockets, Connections
  <2>2. /\ d \in Steps /\ d.c = r.c /\ d.key = r.key /\ d.x = x1
        /\ d.q = r.q /\ d.act = r.act /\ d.sent = r.sent \cup r.c.out
    BY <1>1, <1>5, <2>1 DEF Steps
  <2> QED
    BY <2>1, <2>2 DEF StepOK
<1> QED
  BY <1>3, <1>4, <1>5 DEF FlushOutcomes

(* So does a callback.                                                     *)
LEMMA CallbackOK ==
  ASSUME NEW r, NEW k, NEW s \in Socks, NEW g, NEW n, NEW W, NEW cb,
         StepOK(r, k, s, g, n, W), NEW d \in Callback(cb, r)
  PROVE  StepOK(d, k, s, g, n, W)
<1>1. r \in Steps /\ r.c.sock = s /\ r.key \in Keys /\ r.q \in Queues
  BY DEF StepOK, Steps
<1>2. CASE d = r \/ d \in WriteOutcomes(r, r.c.sock)
  BY <1>1, <1>2, WriteOK
<1>3. CASE d = [r EXCEPT !.q = Push(@, [op |-> "Close", key |-> r.key])]
  <2> DEFINE m == [op |-> "Close", key |-> r.key]
  <2>1. m \in Commands /\ m.op = "Close"
    BY <1>1, CommandFields
  <2> HIDE DEF m
  <2>2. Push(r.q, m) \in Queues /\ QueueOK(Push(r.q, m), n, W)
    BY <1>1, <2>1, PushOK DEF StepOK
  <2>3. /\ d \in Steps /\ d.c = r.c /\ d.key = r.key /\ d.x = r.x
        /\ d.q = Push(r.q, m) /\ d.sent = r.sent
    BY <1>1, <1>3, <2>2 DEF Steps, m
  <2> QED
    BY <2>2, <2>3 DEF StepOK
<1>4. CASE \E a \in {"Close", "Shutdown"} : d = [r EXCEPT !.act = a]
  <2>1. /\ d \in Steps /\ d.c = r.c /\ d.key = r.key /\ d.x = r.x
        /\ d.q = r.q /\ d.sent = r.sent
    BY <1>1, <1>4 DEF Steps
  <2> QED
    BY <2>1 DEF StepOK
<1> QED
  BY <1>2, <1>3, <1>4 DEF Callback

(* The interest in a socket changes neither its state nor its bytes.       *)
LEMMA InterestOK ==
  ASSUME NEW x \in Sockets, NEW read \in BOOLEAN, NEW write \in BOOLEAN
  PROVE  /\ Interest(x, read, write) \in Sockets
         /\ Interest(x, read, write).st = x.st
         /\ Interest(x, read, write).rx = x.rx
         /\ Interest(x, read, write).left = x.left
         /\ Interest(x, read, write).fin = x.fin
         /\ Interest(x, read, write).err = x.err
         /\ Interest(x, read, write).room = x.room
         /\ Interest(x, read, write).rint = read
         /\ Interest(x, read, write).wint = write
         /\ Interest(x, read, write).edge \in BOOLEAN
         /\ x.edge => Interest(x, read, write).edge
         /\ Ready(Interest(x, read, write)) => Interest(x, read, write).edge
<1> DEFINE y == [x EXCEPT !.rint = read, !.wint = write]
           z == [y EXCEPT !.edge = y.edge \/ Ready(y)]
<1>1. /\ y \in Sockets /\ y.st = x.st /\ y.rx = x.rx /\ y.left = x.left
      /\ y.fin = x.fin /\ y.err = x.err /\ y.room = x.room
      /\ y.rint = read /\ y.wint = write /\ y.edge = x.edge
  BY DEF Sockets
<1>2. Ready(y) \in BOOLEAN /\ y.edge \in BOOLEAN
  BY <1>1 DEF Ready, Sockets
<1> HIDE DEF y
<1>3. (y.edge \/ Ready(y)) \in BOOLEAN
  BY <1>2
<1>4. /\ z \in Sockets /\ z.st = y.st /\ z.rx = y.rx /\ z.left = y.left
      /\ z.fin = y.fin /\ z.err = y.err /\ z.room = y.room
      /\ z.rint = y.rint /\ z.wint = y.wint /\ z.edge = (y.edge \/ Ready(y))
  BY <1>1, <1>3 DEF Sockets
<1>5. Interest(x, read, write) = z
  BY DEF Interest, y
<1> HIDE DEF z
<1>6. Ready(z) = Ready(y)
  BY <1>4 DEF Ready
<1> QED
  BY <1>1, <1>2, <1>4, <1>5, <1>6

(* A socket nobody has accepted yet, and one that has been closed.         *)
LEMMA SocketConstants ==
  /\ NewSocket \in Sockets /\ NewSocket.st = "new"
  /\ NewSocket.rx = 0 /\ NewSocket.left = MaxRx
  /\ Closed \in Sockets /\ Closed.st = "closed"
  /\ Closed.rx = 0 /\ Closed.left = 0
<1>1. MaxRx \in Nat /\ 0 \in 0..MaxRx /\ MaxRx \in 0..MaxRx
  BY EventLoopAssumption
<1>2. /\ NewSocket \in Sockets /\ NewSocket.st = "new"
      /\ NewSocket.rx = 0 /\ NewSocket.left = MaxRx
  BY <1>1 DEF NewSocket, Sockets
<1> HIDE DEF NewSocket
<1>3. ASSUME NEW x \in Sockets, NEW y, y = [x EXCEPT !.st = "closed", !.left = 0]
      PROVE  y \in Sockets /\ y.st = "closed" /\ y.rx = x.rx /\ y.left = 0
  BY <1>1, <1>3 DEF Sockets
<1> QED
  BY <1>2, <1>3 DEF Closed

(* reregister, and a backlog left alone.                                   *)
LEMMA RegisteredOK ==
  ASSUME NEW r, NEW k, NEW s \in Socks, NEW g, NEW n, NEW W,
         StepOK(r, k, s, g, n, W)
  PROVE  StepOK(Reregistered(r), k, s, g, n, W) /\ StepOK(Loose(r), k, s, g, n, W)
<1>1. r \in Steps /\ r.c \in Connections /\ r.x \in Sockets
  BY DEF StepOK, Steps
<1>2. (r.c.loose \/ r.c.out # {}) \in BOOLEAN
  BY <1>1 DEF Connections
<1>3. ASSUME NEW b \in BOOLEAN, NEW y \in Sockets,
             y.st = r.x.st, y.rx = r.x.rx, y.left = r.x.left
      PROVE  StepOK([r EXCEPT !.x = y, !.c.loose = b], k, s, g, n, W)
             /\ StepOK([r EXCEPT !.c.loose = b], k, s, g, n, W)
  <2> DEFINE c1 == [r.c EXCEPT !.loose = b]
             d == [r EXCEPT !.x = y, !.c.loose = b]
             e == [r EXCEPT !.c.loose = b]
  <2>1. /\ c1 \in Connections /\ c1.sock = r.c.sock /\ c1.seq = r.c.seq
        /\ c1.in = r.c.in /\ c1.io = r.c.io /\ c1.out = r.c.out
    BY <1>1 DEF Connections
  <2>2. /\ d \in Steps /\ d.c = c1 /\ d.key = r.key /\ d.x = y
        /\ d.q = r.q /\ d.sent = r.sent
    BY <1>1, <2>1 DEF Steps
  <2>3. /\ e \in Steps /\ e.c = c1 /\ e.key = r.key /\ e.x = r.x
        /\ e.q = r.q /\ e.sent = r.sent
    BY <1>1, <2>1 DEF Steps
  <2> QED
    BY <1>3, <2>1, <2>2, <2>3 DEF StepOK
<1>4. StepOK(Loose(r), k, s, g, n, W)
  BY <1>1, <1>2, <1>3 DEF Loose
<1>5. ASSUME NEW w \in BOOLEAN
      PROVE  StepOK([r EXCEPT !.x = Interest(r.x, TRUE, w), !.c.loose = FALSE],
                    k, s, g, n, W)
  BY <1>1, <1>3, InterestOK
<1>6. StepOK(Reregistered(r), k, s, g, n, W)
  <2>1. CASE r.c.out = {}
    <3>1. Reregistered(r) =
            [r EXCEPT !.x = Interest(r.x, TRUE, FALSE), !.c.loose = FALSE]
      BY <2>1 DEF Reregistered, DisableWrite
    <3> QED
      BY <1>5, <3>1
  <2>2. CASE r.c.out # {}
    <3>1. Reregistered(r) =
            [r EXCEPT !.x = Interest(r.x, TRUE, TRUE), !.c.loose = FALSE]
      BY <2>2 DEF Reregistered, EnableWrite
    <3> QED
      BY <1>5, <3>1
  <2> QED
    BY <2>1, <2>2
<1> QED
  BY <1>4, <1>6

-----------------------------------------------------------------------------
(* The effect of a step on the whole state.                                *)

(* Nothing of it changes.                                                  *)
LEMMA CoreFrame ==
  ASSUME CoreInv, UNCHANGED <<scene, slab, sk, queue, sent, closes>>
  PROVE  CoreInv'
<1>1. UNCHANGED <<scene, conns, pool, count, gfds, sk, queue, sent, closes>>
  BY DEF slab
<1>2. /\ SlabOK' /\ (sk \in [Socks -> Sockets])' /\ (queue \in Queues)'
      /\ (sent \in [Socks -> SUBSET Socks])' /\ (closes \in [Socks -> Nat])'
  BY <1>1 DEF CoreInv, SlabOK, Registrations, Keys, Queues, Commands, KeyCommands
<1>3. OwnInv' /\ UniqueInv'
  BY <1>1 DEF CoreInv, SlabInv, OwnInv, UniqueInv, Live, Admitted, Keys
<1>4. CountInv' /\ ClosesInv' /\ SockInv'
  BY <1>1 DEF CoreInv, SlabInv, CountInv, LiveKeys, ClosesInv, Kept, SockInv, Live,
              Keys
<1>5. QueueInv' /\ OutputIsolation'
  BY <1>1 DEF CoreInv, QueueInv, Registering, OutputIsolation
<1> QED
  BY <1>2, <1>3, <1>4, <1>5 DEF CoreInv, SlabInv

(* Only the channels change.                                               *)
LEMMA CoreQueue ==
  ASSUME CoreInv, UNCHANGED <<scene, slab, sk, sent, closes>>,
         queue' \in Queues, QueueOK(queue', Len(gfds), Registering)
  PROVE  CoreInv'
<1>1. UNCHANGED <<scene, conns, pool, count, gfds, sk, sent, closes>>
  BY DEF slab
<1>2. /\ SlabOK' /\ (sk \in [Socks -> Sockets])' /\ (queue \in Queues)'
      /\ (sent \in [Socks -> SUBSET Socks])' /\ (closes \in [Socks -> Nat])'
  BY <1>1 DEF CoreInv, SlabOK, Registrations, Keys, Queues, Commands, KeyCommands
<1>3. OwnInv' /\ UniqueInv'
  BY <1>1 DEF CoreInv, SlabInv, OwnInv, UniqueInv, Live, Admitted, Keys
<1>4. CountInv' /\ ClosesInv' /\ SockInv'
  BY <1>1 DEF CoreInv, SlabInv, CountInv, LiveKeys, ClosesInv, Kept, SockInv, Live,
              Keys
<1>5. QueueInv' /\ OutputIsolation'
  BY <1>1 DEF CoreInv, QueueInv, Registering, OutputIsolation
<1> QED
  BY <1>2, <1>3, <1>4, <1>5 DEF CoreInv, SlabInv

(* Sockets change, but neither open nor close.                             *)
LEMMA CoreSocks ==
  ASSUME CoreInv, UNCHANGED <<scene, slab, queue, sent, closes>>,
         sk' \in [Socks -> Sockets],
         \A s \in Socks : /\ sk'[s].st = sk[s].st
                          /\ sk'[s].rx + sk'[s].left <= MaxRx
  PROVE  CoreInv'
<1>1. UNCHANGED <<scene, conns, pool, count, gfds, queue, sent, closes>>
  BY DEF slab
<1>2. /\ SlabOK' /\ (queue \in Queues)'
      /\ (sent \in [Socks -> SUBSET Socks])' /\ (closes \in [Socks -> Nat])'
  BY <1>1 DEF CoreInv, SlabOK, Registrations, Keys, Queues, Commands, KeyCommands
<1>3. \A k \in Keys : Live(k) => conns[k].sock \in Socks
  BY DEF CoreInv, SlabOK, Live, Connections
<1>4. OwnInv' /\ UniqueInv'
  BY <1>1, <1>3 DEF CoreInv, SlabInv, OwnInv, UniqueInv, Live, Admitted, Keys
<1>5. CountInv' /\ ClosesInv' /\ SockInv'
  BY <1>1 DEF CoreInv, SlabInv, CountInv, LiveKeys, ClosesInv, Kept, SockInv, Live,
              Keys
<1>6. Registering' = Registering
  BY DEF Registering
<1>7. QueueInv' /\ OutputIsolation'
  BY <1>1, <1>6 DEF CoreInv, QueueInv, OutputIsolation
<1> QED
  BY <1>2, <1>4, <1>5, <1>7 DEF CoreInv, SlabInv

(* A connection in the slab, as a step finds it.                           *)
LEMMA NowOK ==
  ASSUME CoreInv, NEW k \in Keys, Live(k), NEW q \in Queues,
         QueueOK(q, Len(gfds), Registering)
  PROVE  /\ conns[k] \in Connections /\ conns[k].sock \in Socks
         /\ StepOK(Now(k, q), k, conns[k].sock, conns[k].seq, Len(gfds), Registering)
         /\ Now(k, q).x = sk[conns[k].sock] /\ Now(k, q).c = conns[k]
         /\ Now(k, q).sent = {} /\ Now(k, q).q = q
<1>1. conns[k] \in Connections /\ conns[k].sock \in Socks
  BY DEF CoreInv, SlabOK, Live, Connections
<1>2. sk[conns[k].sock] \in Sockets
  BY <1>1 DEF CoreInv
<1>3. Now(k, q) \in Steps
  BY <1>1, <1>2 DEF Now, Steps
<1>4. /\ Now(k, q).key = k /\ Now(k, q).c = conns[k] /\ Now(k, q).q = q
      /\ Now(k, q).x = sk[conns[k].sock] /\ Now(k, q).sent = {}
  BY DEF Now
<1> QED
  BY <1>1, <1>3, <1>4 DEF StepOK, CoreInv, SlabInv, OwnInv, SockInv

(* The step leaves the connection in its slot.                             *)
LEMMA CoreKeep ==
  ASSUME CoreInv, NEW k \in Keys, Live(k), NEW r, Keep(r),
         StepOK(r, k, conns[k].sock, conns[k].seq, Len(gfds), Registering),
         UNCHANGED <<scene, pool, count, gfds, closes>>
  PROVE  CoreInv' /\ \A l \in Keys : Live(l)' <=> Live(l)
<1> PICK s, g : s = conns[k].sock /\ g = conns[k].seq
  OBVIOUS
<1>1. /\ r \in Steps /\ r.key = k /\ r.c.sock = s /\ r.c.seq = g
      /\ r.c.in \subseteq {s} /\ r.c.io \subseteq {s} /\ r.c.out \subseteq {s}
      /\ r.sent \subseteq {s} /\ r.x.st = "open" /\ r.x.rx + r.x.left <= MaxRx
      /\ QueueOK(r.q, Len(gfds), Registering)
  BY DEF StepOK
<1>2. /\ r.c \in Connections /\ r.x \in Sockets /\ r.q \in Queues /\ s \in Socks
      /\ r.c # None /\ r.sent \subseteq Socks
  BY <1>1, StepFields, NoneAssumption
<1>3. /\ conns' = [conns EXCEPT ![k] = r.c] /\ sk' = [sk EXCEPT ![s] = r.x]
      /\ queue' = r.q /\ sent' = [sent EXCEPT ![s] = @ \cup r.sent]
  BY <1>1 DEF Keep
<1>4. /\ conns \in [Keys -> Connections \cup {None}] /\ sk \in [Socks -> Sockets]
      /\ sent \in [Socks -> SUBSET Socks] /\ sk[s].st = "open"
      /\ OwnInv /\ UniqueInv /\ CountInv /\ ClosesInv /\ SockInv
  BY DEF CoreInv, SlabOK, SlabInv, OwnInv
<1>5. \A l \in Keys : Live(l)' <=> Live(l)
  BY <1>2, <1>3, <1>4 DEF Live
<1>6. \A l \in Keys : Live(l) => conns'[l].sock = conns[l].sock /\ conns'[l].sock \in Socks
  BY <1>1, <1>2, <1>3, <1>4 DEF Live, Connections
<1>7. \A t \in Socks : sk'[t].st = sk[t].st
  BY <1>1, <1>3, <1>4
<1>8. /\ SlabOK' /\ (sk \in [Socks -> Sockets])' /\ (queue \in Queues)'
      /\ (sent \in [Socks -> SUBSET Socks])' /\ (closes \in [Socks -> Nat])'
  <2>1. SlabOK'
    BY <1>2, <1>3 DEF CoreInv, SlabOK, Registrations, Keys
  <2>2. (queue \in Queues)'
    BY <1>2, <1>3 DEF Queues, Commands, KeyCommands, Keys
  <2> QED
    BY <1>2, <1>3, <1>4, <2>1, <2>2 DEF CoreInv
<1>9. OwnInv'
  <2> SUFFICES ASSUME NEW l \in Keys, Live(l)
               PROVE  /\ conns'[l].in \subseteq {conns'[l].sock}
                      /\ conns'[l].io \subseteq {conns'[l].sock}
                      /\ conns'[l].out \subseteq {conns'[l].sock}
                      /\ sk'[conns'[l].sock].st = "open"
                      /\ conns'[l].seq \in DOMAIN gfds
                      /\ gfds[conns'[l].seq] =
                             [sock |-> conns'[l].sock, key |-> l, kept |-> TRUE]
    BY <1>5 DEF OwnInv, Keys
  <2>1. CASE l = k
    BY <1>1, <1>3, <1>4, <1>6, <1>7, <2>1 DEF OwnInv
  <2>2. CASE l # k
    BY <1>3, <1>4, <1>6, <1>7, <2>2 DEF OwnInv
  <2> QED
    BY <2>1, <2>2
<1>10. UniqueInv'
  BY <1>4, <1>5, <1>6, <1>7 DEF UniqueInv, Admitted, Keys
<1>11. CountInv'
  <2>1. LiveKeys' = LiveKeys
    BY <1>5 DEF LiveKeys, Keys
  <2> QED
    BY <1>4, <2>1 DEF CountInv
<1>12. ClosesInv' /\ SockInv'
  BY <1>1, <1>3, <1>4, <1>7 DEF ClosesInv, Kept, SockInv
<1>13. QueueInv'
  <2>1. Registering' = Registering
    BY <1>7 DEF Registering
  <2> QED
    BY <1>1, <1>3, <2>1 DEF QueueInv
<1>14. OutputIsolation'
  BY <1>1, <1>3, <1>4 DEF CoreInv, OutputIsolation
<1> QED
  BY <1>5, <1>8, <1>9, <1>10, <1>11, <1>12, <1>13, <1>14 DEF CoreInv, SlabInv

(* close_connection: the slot is free, the socket closed, on_close called. *)
LEMMA CoreClose ==
  ASSUME CoreInv, NEW k \in Keys, Live(k), NEW r, NEW graceful,
         StepOK(r, k, conns[k].sock, conns[k].seq, Len(gfds), Registering),
         CloseAs(r, graceful), UNCHANGED <<scene, gfds>>
  PROVE  CoreInv' /\ \A l \in Keys : Live(l)' <=> Live(l) /\ l # k
<1> PICK s, g : s = conns[k].sock /\ g = conns[k].seq
  OBVIOUS
<1> PICK n, W : n = Len(gfds) /\ W = Registering
  OBVIOUS
<1> DEFINE e == [r EXCEPT !.c.out = {}]
<1>1. r \in Steps /\ s \in Socks /\ r.c \in Connections /\ StepOK(r, k, s, g, n, W)
  BY StepFields DEF StepOK
<1>2. StepOK(e, k, s, g, n, W)
  <2> DEFINE c1 == [r.c EXCEPT !.out = {}]
  <2>1. /\ c1 \in Connections /\ c1.sock = r.c.sock /\ c1.seq = r.c.seq
        /\ c1.in = r.c.in /\ c1.io = r.c.io /\ c1.out = {}
    BY <1>1 DEF Connections
  <2>2. /\ e \in Steps /\ e.c = c1 /\ e.key = r.key /\ e.x = r.x
        /\ e.q = r.q /\ e.sent = r.sent
    BY <1>1, <2>1 DEF Steps
  <2> QED
    BY <1>1, <2>1, <2>2 DEF StepOK
<1> HIDE DEF e
<1>3. PICK d \in Closing(r, graceful) :
        /\ conns' = [conns EXCEPT ![d.key] = None]
        /\ pool' = Append(pool, [in |-> d.c.in, io |-> d.c.io, out |-> d.c.out])
        /\ count' = count - 1
        /\ sk' = [sk EXCEPT ![d.c.sock] = Closed]
        /\ queue' = d.q
        /\ sent' = [sent EXCEPT ![d.c.sock] = @ \cup d.sent]
        /\ closes' = [closes EXCEPT ![d.c.sock] = @ + 1]
  BY DEF CloseAs
<1>4. PICK f : StepOK(f, k, s, g, n, W) /\ d \in Callback("on_close", f)
  <2>1. \E f \in FlushOutcomes(r) \cup {e} : d \in Callback("on_close", f)
    BY DEF Closing, e
  <2> QED
    BY <1>1, <1>2, <2>1, FlushOK
<1>5. StepOK(d, k, s, g, n, W)
  BY <1>1, <1>4, CallbackOK
<1>6. /\ d \in Steps /\ d.key = k /\ d.c.sock = s /\ d.sent \subseteq {s}
      /\ QueueOK(d.q, n, W) /\ d.q \in Queues
      /\ d.c.in \subseteq Socks /\ d.c.io \subseteq Socks /\ d.c.out \subseteq Socks
  BY <1>5, StepFields DEF StepOK
<1>7. /\ conns \in [Keys -> Connections \cup {None}] /\ sk \in [Socks -> Sockets]
      /\ sent \in [Socks -> SUBSET Socks] /\ closes \in [Socks -> Nat]
      /\ pool \in Seq(Residues) /\ sk[s].st = "open"
      /\ OwnInv /\ UniqueInv /\ CountInv /\ ClosesInv /\ SockInv
  BY DEF CoreInv, SlabOK, SlabInv, OwnInv
<1>8. Closed \in Sockets /\ Closed.st = "closed" /\ Closed.rx = 0 /\ Closed.left = 0
  BY SocketConstants
<1>9. /\ conns' = [conns EXCEPT ![k] = None] /\ sk' = [sk EXCEPT ![s] = Closed]
      /\ queue' = d.q /\ sent' = [sent EXCEPT ![s] = @ \cup d.sent]
      /\ closes' = [closes EXCEPT ![s] = @ + 1]
  BY <1>3, <1>6
<1>10. \A l \in Keys : Live(l)' <=> Live(l) /\ l # k
  BY <1>7, <1>9 DEF Live
<1>11. LiveKeys' = LiveKeys \ {k} /\ k \in LiveKeys
  BY <1>10 DEF LiveKeys, Keys
<1>12. CountInv' /\ count' \in Nat
  <2>1. /\ IsFiniteSet(LiveKeys \ {k})
        /\ Cardinality(LiveKeys \ {k}) = Cardinality(LiveKeys) - 1
    BY <1>7, <1>11, FS_RemoveElement DEF CountInv
  <2>2. Cardinality(LiveKeys \ {k}) \in Nat
    BY <2>1, FS_CardinalityType
  <2> QED
    BY <1>3, <1>7, <1>11, <2>1, <2>2 DEF CountInv
<1>13. SlabOK'
  <2>1. [in |-> d.c.in, io |-> d.c.io, out |-> d.c.out] \in Residues
    BY <1>6 DEF Residues
  <2> HIDE DEF Residues
  <2>2. pool' \in Seq(Residues)
    BY <1>3, <1>7, <2>1
  <2>3. conns' \in [Keys -> Connections \cup {None}]
    BY <1>7, <1>9
  <2> QED
    BY <1>12, <2>2, <2>3 DEF CoreInv, SlabOK, Registrations, Keys
<1>14. /\ (sk \in [Socks -> Sockets])' /\ (queue \in Queues)'
       /\ (sent \in [Socks -> SUBSET Socks])' /\ (closes \in [Socks -> Nat])'
  <2>1. (queue \in Queues)'
    BY <1>6, <1>9 DEF Queues, Commands, KeyCommands, Keys
  <2>2. /\ sk' \in [Socks -> Sockets] /\ closes' \in [Socks -> Nat]
    BY <1>1, <1>7, <1>8, <1>9
  <2>3. sent' \in [Socks -> SUBSET Socks]
    BY <1>1, <1>6, <1>7, <1>9
  <2> QED
    BY <2>1, <2>2, <2>3
<1>15. \A l \in Keys : Live(l) /\ l # k =>
         /\ conns'[l] = conns[l] /\ conns[l].sock \in Socks
         /\ conns[l].sock # s /\ sk'[conns[l].sock] = sk[conns[l].sock]
  <2> SUFFICES ASSUME NEW l \in Keys, Live(l), l # k
               PROVE  /\ conns'[l] = conns[l] /\ conns[l].sock \in Socks
                      /\ conns[l].sock # s /\ sk'[conns[l].sock] = sk[conns[l].sock]
    OBVIOUS
  <2>1. conns'[l] = conns[l] /\ conns[l].sock \in Socks
    BY <1>7, <1>9 DEF Live, Connections
  <2>2. conns[l].sock # s
    BY <1>7 DEF UniqueInv
  <2> QED
    BY <1>7, <1>9, <2>1, <2>2
<1>16. OwnInv'
  <2> SUFFICES ASSUME NEW l \in Keys, Live(l), l # k
               PROVE  /\ conns'[l].in \subseteq {conns'[l].sock}
                      /\ conns'[l].io \subseteq {conns'[l].sock}
                      /\ conns'[l].out \subseteq {conns'[l].sock}
                      /\ sk'[conns'[l].sock].st = "open"
                      /\ conns'[l].seq \in DOMAIN gfds
                      /\ gfds[conns'[l].seq] =
                             [sock |-> conns'[l].sock, key |-> l, kept |-> TRUE]
    BY <1>10 DEF OwnInv, Keys
  <2> QED
    BY <1>7, <1>15 DEF OwnInv
<1>17. UniqueInv'
  <2>1. \A m, l \in Keys :
          (Live(m) /\ Live(l) /\ conns[m].sock = conns[l].sock)' => m = l
    BY <1>7, <1>10, <1>15 DEF UniqueInv
  <2>2. \A t \in Socks : sk'[t].st = "open" =>
          \E l \in Keys : Live(l)' /\ conns'[l].sock = t
    <3> SUFFICES ASSUME NEW t \in Socks, sk'[t].st = "open"
                 PROVE  \E l \in Keys : Live(l)' /\ conns'[l].sock = t
      OBVIOUS
    <3>1. t # s /\ sk[t].st = "open"
      BY <1>1, <1>7, <1>8, <1>9
    <3>2. PICK l \in Keys : Live(l) /\ conns[l].sock = t
      BY <1>7, <3>1 DEF UniqueInv, Admitted
    <3> QED
      BY <1>10, <1>15, <3>1, <3>2
  <2> QED
    BY <2>1, <2>2 DEF UniqueInv, Admitted, Keys
<1>18. ClosesInv' /\ SockInv'
  <2>1. ClosesInv'
    <3>1. \A t \in Socks : Kept(t)' <=> Kept(t)
      BY DEF Kept
    <3>2. Kept(s)
      <4>1. /\ conns[k].seq \in DOMAIN gfds
            /\ gfds[conns[k].seq] = [sock |-> s, key |-> k, kept |-> TRUE]
        BY <1>7 DEF OwnInv
      <4>2. gfds[conns[k].seq].sock = s /\ gfds[conns[k].seq].kept
        BY <4>1
      <4> QED
        BY <4>1, <4>2 DEF Kept
    <3> QED
      BY <1>1, <1>7, <1>8, <1>9, <3>1, <3>2 DEF ClosesInv
  <2>2. SockInv'
    BY <1>1, <1>7, <1>8, <1>9, EventLoopAssumption DEF SockInv
  <2> QED
    BY <2>1, <2>2
<1>19. QueueInv'
  <2>1. Registering' = Registering
    BY <1>1, <1>7, <1>8, <1>9 DEF Registering
  <2> QED
    BY <1>6, <1>9, <2>1 DEF QueueInv
<1>20. OutputIsolation'
  BY <1>1, <1>6, <1>7, <1>9 DEF CoreInv, OutputIsolation
<1> QED
  BY <1>10, <1>12, <1>13, <1>14, <1>16, <1>17, <1>18, <1>19, <1>20
  DEF CoreInv, SlabInv

(* register, in its two outcomes: the handler keeps the connection, or     *)
(* on_open turns it down.                                                  *)
LEMMA CoreRegister ==
  ASSUME CoreInv, NEW s \in Socks, sk[s].st \in {"new", "queued"},
         NEW q \in Queues, QueueOK(q, Len(gfds), Registering \ {s}),
         Register(s, q)
  PROVE  CoreInv'
<1> PICK n, W : n = Len(gfds) + 1 /\ W = Registering \ {s}
  OBVIOUS
<1>1. /\ conns \in [Keys -> Connections \cup {None}] /\ sk \in [Socks -> Sockets]
      /\ sent \in [Socks -> SUBSET Socks] /\ closes \in [Socks -> Nat]
      /\ pool \in Seq(Residues) /\ gfds \in Seq(Registrations)
      /\ OwnInv /\ UniqueInv /\ CountInv /\ ClosesInv /\ SockInv /\ count \in Nat
  BY DEF CoreInv, SlabOK, SlabInv
<1> DEFINE c == IF pool = <<>> THEN Fresh(n, s) ELSE Reset(pool[Len(pool)], n, s)
           x == PollRegister(sk[s])
<1>2. PICK k \in Keys :
        /\ ~Live(k)
        /\ \E r \in Callback("on_open",
                      [key |-> k, c |-> c, x |-> x, q |-> q, sent |-> {},
                       ok |-> TRUE, act |-> "None"]) :
             /\ gfds' = Append(gfds, [sock |-> s, key |-> k, kept |-> r.act = "None"])
             /\ pool' = IF pool = <<>> THEN pool ELSE SubSeq(pool, 1, Len(pool) - 1)
             /\ IF r.act = "None"
                THEN Keep(Loose(r)) /\ count' = count + 1
                ELSE /\ sk' = [sk EXCEPT ![s] = Closed]
                     /\ queue' = r.q
                     /\ sent' = [sent EXCEPT ![s] = @ \cup r.sent]
                     /\ UNCHANGED <<conns, count>>
             /\ UNCHANGED <<scene, closes>>
  BY DEF Register
<1>3. n \in Nat /\ c = Fresh(n, s)
  BY <1>1 DEF Fresh, Reset
<1> HIDE DEF c
<1>4. /\ c \in Connections /\ c.sock = s /\ c.seq = n
      /\ c.in = {} /\ c.io = {} /\ c.out = {}
  BY <1>3 DEF Fresh, Connections
<1>5. x \in Sockets /\ x.st = "open" /\ x.rx = sk[s].rx /\ x.left = sk[s].left
  <2>1. /\ [sk[s] EXCEPT !.st = "open"] \in Sockets
        /\ [sk[s] EXCEPT !.st = "open"].st = "open"
        /\ [sk[s] EXCEPT !.st = "open"].rx = sk[s].rx
        /\ [sk[s] EXCEPT !.st = "open"].left = sk[s].left
    BY <1>1 DEF Sockets
  <2> QED
    BY <2>1, InterestOK DEF PollRegister
<1> HIDE DEF x
<1> DEFINE r0 == [key |-> k, c |-> c, x |-> x, q |-> q, sent |-> {},
                  ok |-> TRUE, act |-> "None"]
<1>6. QueueOK(q, n, W)
  BY <1>1, QueueWeaken
<1>7. StepOK(r0, k, s, n, n, W)
  <2>1. r0 \in Steps
    BY <1>4, <1>5 DEF Steps
  <2> QED
    BY <1>1, <1>4, <1>5, <1>6, <2>1 DEF StepOK, SockInv
<1>8. PICK r \in Callback("on_open", r0) :
        /\ gfds' = Append(gfds, [sock |-> s, key |-> k, kept |-> r.act = "None"])
        /\ pool' = IF pool = <<>> THEN pool ELSE SubSeq(pool, 1, Len(pool) - 1)
        /\ IF r.act = "None"
           THEN Keep(Loose(r)) /\ count' = count + 1
           ELSE /\ sk' = [sk EXCEPT ![s] = Closed]
                /\ queue' = r.q
                /\ sent' = [sent EXCEPT ![s] = @ \cup r.sent]
                /\ UNCHANGED <<conns, count>>
        /\ UNCHANGED <<scene, closes>>
  BY <1>2
<1> HIDE DEF r0
<1>9. StepOK(r, k, s, n, n, W) /\ StepOK(Loose(r), k, s, n, n, W)
  BY <1>7, <1>8, CallbackOK, RegisteredOK
<1>10. /\ Len(gfds) \in Nat /\ DOMAIN gfds = 1..Len(gfds)
       /\ gfds' \in Seq(Registrations)
       /\ Len(gfds') = n /\ DOMAIN gfds' = 1..n
       /\ gfds'[n].sock = s /\ gfds'[n].key = k
       /\ gfds'[n].kept <=> r.act = "None"
       /\ r.act = "None" => gfds'[n] = [sock |-> s, key |-> k, kept |-> TRUE]
       /\ \A i \in DOMAIN gfds : i \in DOMAIN gfds' /\ gfds'[i] = gfds[i]
  <2> DEFINE b == r.act = "None"
             e == [sock |-> s, key |-> k, kept |-> b]
  <2>1. b \in BOOLEAN /\ (b <=> r.act = "None") /\ (r.act = "None" => b = TRUE)
    OBVIOUS
  <2>2. gfds' = Append(gfds, e)
    BY <1>8
  <2> HIDE DEF b
  <2>3. e \in Registrations /\ e.sock = s /\ e.key = k /\ e.kept = b
    BY <2>1 DEF Registrations
  <2>4. r.act = "None" => e = [sock |-> s, key |-> k, kept |-> TRUE]
    BY <2>1
  <2> HIDE DEF e
  <2>5. /\ Len(gfds) \in Nat /\ DOMAIN gfds = 1..Len(gfds)
        /\ gfds' \in Seq(Registrations)
        /\ Len(gfds') = n /\ DOMAIN gfds' = 1..n /\ gfds'[n] = e
        /\ \A i \in DOMAIN gfds : i \in DOMAIN gfds' /\ gfds'[i] = gfds[i]
    BY <1>1, <2>2, <2>3, AppendElements
  <2> QED
    BY <2>1, <2>3, <2>4, <2>5
<1>11. pool' \in Seq(Residues)
  <2>1. CASE pool = <<>>
    BY <1>1, <1>8, <2>1
  <2>2. CASE pool # <<>>
    BY <1>1, <1>8, <2>2
  <2> QED
    BY <2>1, <2>2
<1>12. \A l \in Keys : Live(l) => conns[l].sock \in Socks /\ conns[l].sock # s
  <2> SUFFICES ASSUME NEW l \in Keys, Live(l)
               PROVE  conns[l].sock \in Socks /\ conns[l].sock # s
    OBVIOUS
  <2>1. conns[l] \in Connections
    BY <1>1 DEF Live
  <2>2. sk[conns[l].sock].st = "open"
    BY <1>1 DEF OwnInv
  <2> QED
    BY <2>1, <2>2 DEF Connections
<1>13. \A t \in Socks \ {s} : Kept(t)' <=> Kept(t)
  BY <1>10 DEF Kept
<1>14. CASE r.act = "None"
  <2> PICK d : d = Loose(r)
    OBVIOUS
  <2>1. /\ d \in Steps /\ d.key = k /\ d.c.sock = s /\ d.c.seq = n
        /\ d.c.in \subseteq {s} /\ d.c.io \subseteq {s} /\ d.c.out \subseteq {s}
        /\ d.sent \subseteq {s} /\ d.x.st = "open" /\ d.x.rx + d.x.left <= MaxRx
        /\ QueueOK(d.q, n, W)
    BY <1>9 DEF StepOK
  <2>2. /\ d.c \in Connections /\ d.x \in Sockets /\ d.q \in Queues
        /\ d.c # None /\ d.sent \subseteq Socks
    BY <2>1, StepFields, NoneAssumption
  <2>3. /\ conns' = [conns EXCEPT ![k] = d.c] /\ sk' = [sk EXCEPT ![s] = d.x]
        /\ queue' = d.q /\ sent' = [sent EXCEPT ![s] = @ \cup d.sent]
        /\ count' = count + 1 /\ UNCHANGED <<scene, closes>>
    BY <1>8, <1>14, <2>1 DEF Keep
  <2>4. \A l \in Keys : Live(l)' <=> Live(l) \/ l = k
    BY <1>1, <2>2, <2>3 DEF Live
  <2>5. \A l \in Keys : Live(l) =>
          l # k /\ conns'[l] = conns[l] /\ sk'[conns[l].sock] = sk[conns[l].sock]
    BY <1>1, <1>2, <1>12, <2>3
  <2>6. conns'[k] = d.c /\ sk'[s] = d.x
    BY <1>1, <2>3
  <2>7. CountInv' /\ count' \in Nat
    <3>1. LiveKeys' = LiveKeys \cup {k} /\ k \notin LiveKeys
      BY <1>2, <2>3, <2>4 DEF LiveKeys, Keys
    <3>2. /\ IsFiniteSet(LiveKeys \cup {k})
          /\ Cardinality(LiveKeys \cup {k}) = Cardinality(LiveKeys) + 1
      BY <1>1, <3>1, FS_AddElement DEF CountInv
    <3> QED
      BY <1>1, <2>3, <3>1, <3>2 DEF CountInv
  <2>8. SlabOK'
    <3>1. conns' \in [Keys -> Connections \cup {None}]
      BY <1>1, <2>2, <2>3
    <3> QED
      BY <1>10, <1>11, <2>3, <2>7, <3>1 DEF SlabOK, Registrations, Keys
  <2>9. /\ (sk \in [Socks -> Sockets])' /\ (queue \in Queues)'
        /\ (sent \in [Socks -> SUBSET Socks])' /\ (closes \in [Socks -> Nat])'
    <3>1. (queue \in Queues)'
      BY <2>2, <2>3 DEF Queues, Commands, KeyCommands, Keys
    <3> QED
      BY <1>1, <2>2, <2>3, <3>1
  <2>10. OwnInv'
    <3> SUFFICES ASSUME NEW l \in Keys, Live(l) \/ l = k
                 PROVE  /\ conns'[l].in \subseteq {conns'[l].sock}
                        /\ conns'[l].io \subseteq {conns'[l].sock}
                        /\ conns'[l].out \subseteq {conns'[l].sock}
                        /\ sk'[conns'[l].sock].st = "open"
                        /\ conns'[l].seq \in DOMAIN gfds'
                        /\ gfds'[conns'[l].seq] =
                             [sock |-> conns'[l].sock, key |-> l, kept |-> TRUE]
      BY <2>3, <2>4 DEF OwnInv, Keys
    <3>1. CASE l = k
      <4>1. n \in DOMAIN gfds' /\ gfds'[n] = [sock |-> s, key |-> k, kept |-> TRUE]
        BY <1>3, <1>10, <1>14
      <4> QED
        BY <2>1, <2>6, <3>1, <4>1
    <3>2. CASE Live(l)
      <4>1. /\ conns[l].in \subseteq {conns[l].sock}
            /\ conns[l].io \subseteq {conns[l].sock}
            /\ conns[l].out \subseteq {conns[l].sock}
            /\ sk[conns[l].sock].st = "open"
            /\ conns[l].seq \in DOMAIN gfds
            /\ gfds[conns[l].seq] =
                 [sock |-> conns[l].sock, key |-> l, kept |-> TRUE]
        BY <1>1, <3>2 DEF OwnInv
      <4>2. conns'[l] = conns[l] /\ sk'[conns[l].sock] = sk[conns[l].sock]
        BY <2>5, <3>2
      <4>3. conns[l].seq \in DOMAIN gfds' /\ gfds'[conns[l].seq] = gfds[conns[l].seq]
        BY <1>10, <4>1
      <4> QED
        BY <4>1, <4>2, <4>3
    <3> QED
      BY <3>1, <3>2
  <2>11. UniqueInv'
    <3>1. \A m, l \in Keys :
            (Live(m) /\ Live(l) /\ conns[m].sock = conns[l].sock)' => m = l
      BY <1>1, <1>12, <2>1, <2>4, <2>5, <2>6 DEF UniqueInv
    <3>2. \A t \in Socks : sk'[t].st = "open" =>
            \E l \in Keys : Live(l)' /\ conns'[l].sock = t
      <4> SUFFICES ASSUME NEW t \in Socks, sk'[t].st = "open"
                   PROVE  \E l \in Keys : Live(l)' /\ conns'[l].sock = t
        OBVIOUS
      <4>1. CASE t = s
        BY <2>1, <2>4, <2>6, <4>1
      <4>2. CASE t # s
        <5>1. PICK l \in Keys : Live(l) /\ conns[l].sock = t
          BY <1>1, <2>3, <4>2 DEF UniqueInv, Admitted
        <5> QED
          BY <2>4, <2>5, <5>1
      <4> QED
        BY <4>1, <4>2
    <3> QED
      BY <2>3, <3>1, <3>2 DEF UniqueInv, Admitted, Keys
  <2>12. ClosesInv' /\ SockInv'
    BY <1>1, <1>13, <2>1, <2>3 DEF ClosesInv, SockInv
  <2>13. QueueInv'
    <3>1. Registering' = W
      BY <1>1, <2>1, <2>3 DEF Registering
    <3> QED
      BY <1>10, <2>1, <2>3, <3>1 DEF QueueInv
  <2>14. OutputIsolation'
    BY <1>1, <2>1, <2>3 DEF CoreInv, OutputIsolation
  <2> QED
    BY <2>7, <2>8, <2>9, <2>10, <2>11, <2>12, <2>13, <2>14 DEF CoreInv, SlabInv
<1>15. CASE r.act # "None"
  <2>1. /\ sk' = [sk EXCEPT ![s] = Closed] /\ queue' = r.q
        /\ sent' = [sent EXCEPT ![s] = @ \cup r.sent]
        /\ UNCHANGED <<scene, conns, count, closes>>
    BY <1>8, <1>15
  <2>2. /\ r.q \in Queues /\ QueueOK(r.q, n, W) /\ r.sent \subseteq {s}
    BY <1>9, StepFields DEF StepOK
  <2>3. Closed \in Sockets /\ Closed.st = "closed" /\ Closed.rx = 0 /\ Closed.left = 0
    BY SocketConstants
  <2>4. \A l \in Keys : Live(l)' <=> Live(l)
    BY <2>1 DEF Live
  <2>5. \A l \in Keys : Live(l) => sk'[conns[l].sock] = sk[conns[l].sock]
    BY <1>1, <1>12, <2>1
  <2>6. SlabOK'
    BY <1>1, <1>10, <1>11, <2>1 DEF SlabOK, Registrations, Keys
  <2>7. /\ (sk \in [Socks -> Sockets])' /\ (queue \in Queues)'
        /\ (sent \in [Socks -> SUBSET Socks])' /\ (closes \in [Socks -> Nat])'
    <3>1. (queue \in Queues)'
      BY <2>1, <2>2 DEF Queues, Commands, KeyCommands, Keys
    <3> QED
      BY <1>1, <2>1, <2>2, <2>3, <3>1
  <2>8. OwnInv'
    BY <1>1, <1>10, <2>1, <2>4, <2>5 DEF OwnInv, Keys
  <2>9. UniqueInv'
    BY <1>1, <2>1, <2>3, <2>4 DEF UniqueInv, Admitted, Keys
  <2>10. CountInv'
    <3>1. LiveKeys' = LiveKeys
      BY <2>1, <2>4 DEF LiveKeys, Keys
    <3> QED
      BY <1>1, <2>1, <3>1 DEF CountInv
  <2>11. ClosesInv'
    <3>1. ~Kept(s)
      BY <1>1 DEF ClosesInv
    <3>2. ~Kept(s)'
      BY <1>10, <1>15, <3>1 DEF Kept
    <3> QED
      BY <1>1, <1>13, <2>1, <2>3, <3>1, <3>2 DEF ClosesInv
  <2>12. SockInv'
    BY <1>1, <2>1, <2>3, EventLoopAssumption DEF SockInv
  <2>13. QueueInv'
    <3>1. Registering' = W
      BY <1>1, <2>1, <2>3 DEF Registering
    <3> QED
      BY <1>10, <2>1, <2>2, <3>1 DEF QueueInv
  <2>14. OutputIsolation'
    BY <1>1, <2>1, <2>2 DEF CoreInv, OutputIsolation
  <2> QED
    BY <2>6, <2>7, <2>8, <2>9, <2>10, <2>11, <2>12, <2>13, <2>14
    DEF CoreInv, SlabInv
<1> QED
  BY <1>14, <1>15

-----------------------------------------------------------------------------
(* The loop's own state.                                                   *)
Places ==
  {"poll", "cmd", "events", "write", "read", "rereg", "tick", "shutdown",
   "stopped", "failed"}

Currents == [key : Keys \cup {None}, r : BOOLEAN, n : 0..MaxRead, cmd : BOOLEAN]

(* What a step has to establish of it.                                     *)
LEMMA LoopNext ==
  ASSUME UNCHANGED scene, pc' \in Places, budget' \in 0..MaxBatch,
         cur' \in Currents, batch' \subseteq Events, waking' \in BOOLEAN,
         app' \in 0..MaxApp, got' \in [Socks -> SUBSET Socks],
         InputIsolation',
         pc' \in {"write", "read", "rereg"} => cur'.key \in Keys,
         pc' = "stopped" => \A k \in Keys : ~Live(k)'
  PROVE  LoopInv'
<1>1. Keys' = Keys /\ Events' = Events
  BY DEF Keys, Events
<1>2. ControlOK'
  BY <1>1 DEF ControlOK, Places, Currents
<1>3. CurInv'
  BY <1>1 DEF CurInv
<1> QED
  BY <1>2, <1>3 DEF LoopInv

(* What a step finds of it.                                                *)
LEMMA LoopNow ==
  ASSUME LoopInv
  PROVE  /\ pc \in Places /\ budget \in 0..MaxBatch /\ cur \in Currents
         /\ batch \subseteq Events /\ waking \in BOOLEAN /\ app \in 0..MaxApp
         /\ got \in [Socks -> SUBSET Socks] /\ InputIsolation
         /\ pc \in {"write", "read", "rereg"} => cur.key \in Keys
         /\ pc = "stopped" => \A k \in Keys : ~Live(k)
         /\ cur.key \in Keys \cup {None} /\ cur.r \in BOOLEAN
         /\ cur.n \in 0..MaxRead /\ cur.cmd \in BOOLEAN
  BY DEF LoopInv, ControlOK, CurInv, Places, Currents

(* No operation is under way.                                              *)
LEMMA IdleOK == Idle \in Currents
<1>1. 0 \in 0..MaxRead
  BY EventLoopAssumption
<1> QED
  BY <1>1 DEF Idle, Currents

(* The environment leaves the loop's own state alone.                      *)
LEMMA LoopFrame ==
  ASSUME LoopInv, UNCHANGED <<scene, conns, control, app, got>>
  PROVE  LoopInv'
<1>1. UNCHANGED <<pc, budget, cur, batch, waking>>
  BY DEF control
<1>2. InputIsolation'
  BY LoopNow DEF InputIsolation
<1>3. pc' = "stopped" => \A k \in Keys : ~Live(k)'
  BY <1>1, LoopNow DEF Live
<1> QED
  BY <1>1, <1>2, <1>3, LoopNow, LoopNext

(* A peer moves: Arrive, PeerCloses, PeerResets.                           *)
LEMMA SignalStep ==
  ASSUME Inv, NEW s \in Socks, NEW x \in Sockets, Signal(s, x),
         x.st = sk[s].st, x.rx + x.left <= MaxRx
  PROVE  Inv'
<1> DEFINE b == x.edge \/ x.rint \/ (x.err /\ x.st = "open")
           y == [x EXCEPT !.edge = b]
<1>1. b \in BOOLEAN
  BY DEF Sockets
<1> HIDE DEF b
<1>2. y \in Sockets /\ y.st = x.st /\ y.rx = x.rx /\ y.left = x.left
  BY <1>1 DEF Sockets
<1>3. sk' = [sk EXCEPT ![s] = y]
  BY DEF Signal, b
<1> HIDE DEF y
<1>4. /\ UNCHANGED <<scene, slab, queue, sent, closes>>
      /\ UNCHANGED <<scene, conns, control, app, got>>
  BY DEF Signal, slab, history
<1>5. sk \in [Socks -> Sockets] /\ \A t \in Socks : sk[t].rx + sk[t].left <= MaxRx
  BY DEF Inv, CoreInv, SlabInv, SockInv
<1>6. /\ sk' \in [Socks -> Sockets]
      /\ \A t \in Socks : sk'[t].st = sk[t].st /\ sk'[t].rx + sk'[t].left <= MaxRx
  BY <1>2, <1>3, <1>5
<1>7. CoreInv'
  BY <1>4, <1>6, CoreSocks DEF Inv
<1>8. LoopInv'
  BY <1>4, LoopFrame DEF Inv
<1> QED
  BY <1>4, <1>7, <1>8 DEF Inv

(* The four things a peer does.                                            *)
LEMMA PeerStep ==
  ASSUME Inv, NEW s \in Socks,
         Arrive(s) \/ PeerCloses(s) \/ PeerResets(s) \/ PeerReads(s)
  PROVE  Inv'
<1> PICK x : x = sk[s]
  OBVIOUS
<1>1. /\ x \in Sockets /\ x.rx + x.left <= MaxRx /\ x.rx \in 0..MaxRx
      /\ x.left \in 0..MaxRx /\ MaxRx \in Nat /\ sk \in [Socks -> Sockets]
  BY EventLoopAssumption DEF Inv, CoreInv, SlabInv, SockInv, Sockets
<1>2. CASE Arrive(s)
  <2> DEFINE y == [x EXCEPT !.left = @ - 1, !.rx = @ + 1]
  <2>1. x.left > 0 /\ Signal(s, y)
    BY <1>2 DEF Arrive
  <2>2. x.left - 1 \in 0..MaxRx /\ x.rx + 1 \in 0..MaxRx
    BY <1>1, <2>1
  <2>3. y \in Sockets /\ y.st = x.st /\ y.rx = x.rx + 1 /\ y.left = x.left - 1
    BY <1>1, <2>2 DEF Sockets
  <2> HIDE DEF y
  <2>4. y.rx + y.left <= MaxRx
    BY <1>1, <2>3
  <2> QED
    BY <2>1, <2>3, <2>4, SignalStep
<1>3. CASE PeerCloses(s)
  <2> DEFINE y == [x EXCEPT !.fin = TRUE]
  <2>1. y \in Sockets /\ y.st = x.st /\ y.rx = x.rx /\ y.left = x.left
    BY <1>1 DEF Sockets
  <2>2. Signal(s, y)
    BY <1>3 DEF PeerCloses
  <2> QED
    BY <1>1, <2>1, <2>2, SignalStep
<1>4. CASE PeerResets(s)
  <2> DEFINE y == [x EXCEPT !.err = TRUE, !.rx = 0]
  <2>0. 0 \in 0..MaxRx
    BY <1>1
  <2>1. y \in Sockets /\ y.st = x.st /\ y.rx = 0 /\ y.left = x.left
    BY <1>1, <2>0 DEF Sockets
  <2>2. Signal(s, y)
    BY <1>4 DEF PeerResets
  <2> HIDE DEF y
  <2>3. y.rx + y.left <= MaxRx
    BY <1>1, <2>1
  <2> QED
    BY <2>1, <2>2, <2>3, SignalStep
<1>5. CASE PeerReads(s)
  <2> DEFINE y == [x EXCEPT !.room = TRUE, !.edge = @ \/ x.wint]
  <2>1. y \in Sockets /\ y.st = x.st /\ y.rx = x.rx /\ y.left = x.left
    BY <1>1 DEF Sockets
  <2>2. sk' = [sk EXCEPT ![s] = y]
    BY <1>1, <1>5 DEF PeerReads
  <2> HIDE DEF y
  <2>3. /\ UNCHANGED <<scene, slab, queue, sent, closes>>
        /\ UNCHANGED <<scene, conns, control, app, got>>
    BY <1>5 DEF PeerReads, slab, history
  <2>4. /\ sk' \in [Socks -> Sockets]
        /\ \A t \in Socks : sk'[t].st = sk[t].st /\ sk'[t].rx + sk'[t].left <= MaxRx
    BY <1>1, <2>1, <2>2 DEF Inv, CoreInv, SlabInv, SockInv
  <2>5. CoreInv'
    BY <2>3, <2>4, CoreSocks DEF Inv
  <2>6. LoopInv'
    BY <2>3, LoopFrame DEF Inv
  <2> QED
    BY <2>3, <2>5, <2>6 DEF Inv
<1> QED
  BY <1>2, <1>3, <1>4, <1>5

(* The acceptor hands over a socket nobody has seen.                       *)
LEMMA AcceptStep ==
  ASSUME Inv, NEW s \in Socks, Accept(s)
  PROVE  Inv'
<1> PICK W : W = Registering
  OBVIOUS
<1> DEFINE m == [op |-> "Register", sock |-> s]
           u == queue.urgent
           x == [sk[s] EXCEPT !.st = "queued"]
<1>1. /\ sk[s].st = "new" /\ sk' = [sk EXCEPT ![s] = x]
      /\ queue' = [queue EXCEPT !.urgent = Append(@, m)]
      /\ UNCHANGED <<scene, conns, pool, count, gfds, control, app, sent, got,
                     closes>>
  BY DEF Accept, slab, history, Inv, CoreInv
<1>2. /\ CoreInv /\ sk \in [Socks -> Sockets] /\ queue \in Queues
      /\ OwnInv /\ UniqueInv /\ ClosesInv /\ SockInv /\ CountInv
      /\ QueueOK(queue, Len(gfds), W)
  BY DEF Inv, CoreInv, SlabInv, QueueInv
<1>3. x \in Sockets /\ x.st = "queued" /\ x.rx = sk[s].rx /\ x.left = sk[s].left
  BY <1>2 DEF Sockets
<1> HIDE DEF x
<1>4. m \in Commands /\ m.op = "Register" /\ m.sock = s
  BY CommandFields
<1> HIDE DEF m
<1>5. u \in Seq(Commands) /\ queue.common \in Seq(Commands)
  BY <1>2 DEF Queues
<1> DEFINE v == Append(u, m)
<1>6. queue' = [urgent |-> v, common |-> queue.common]
  BY <1>1, <1>2 DEF Queues
<1>7. v \in Seq(Commands) /\ DOMAIN v = 1..(Len(u) + 1) /\ DOMAIN u = 1..Len(u)
      /\ Len(u) \in Nat
      /\ \A i \in DOMAIN u : v[i] = u[i]
      /\ v[Len(u) + 1] = m
  BY <1>4, <1>5, AppendElements
<1>8. \A i \in DOMAIN v : (i \in DOMAIN u /\ v[i] = u[i])
                            \/ (i = Len(u) + 1 /\ v[i] = m)
  BY <1>7
<1> HIDE DEF v
<1>9. s \notin W /\ Registering' = W \cup {s}
  BY <1>1, <1>2, <1>3 DEF Registering
<1>10. queue' \in Queues /\ QueueOK(queue', Len(gfds), W \cup {s})
  <2>1. \A i \in DOMAIN v :
          /\ v[i].op = "Register" => v[i].sock \in W \cup {s}
          /\ v[i].op = "AsyncWrite" => v[i].seq <= Len(gfds)
    BY <1>2, <1>4, <1>8 DEF QueueOK
  <2>2. \A i, j \in DOMAIN v :
          /\ v[i].op = "Register" /\ v[j].op = "Register"
          /\ v[i].sock = v[j].sock
          => i = j
    BY <1>2, <1>4, <1>8, <1>9 DEF QueueOK
  <2> QED
    BY <1>2, <1>5, <1>6, <1>7, <2>1, <2>2 DEF QueueOK, Queues
<1>11. sk' \in [Socks -> Sockets] /\ sk'[s] = x
       /\ \A t \in Socks : t # s => sk'[t] = sk[t]
  BY <1>1, <1>2, <1>3
<1>12. \A k \in Keys : Live(k) =>
         conns[k].sock # s /\ sk'[conns[k].sock] = sk[conns[k].sock]
  <2> SUFFICES ASSUME NEW k \in Keys, Live(k)
               PROVE  conns[k].sock # s /\ sk'[conns[k].sock] = sk[conns[k].sock]
    OBVIOUS
  <2>1. sk[conns[k].sock].st = "open"
    BY <1>2 DEF OwnInv
  <2>2. conns[k].sock \in Socks
    BY <1>2 DEF CoreInv, SlabOK, Live, Connections
  <2> QED
    BY <1>1, <1>11, <2>1, <2>2
<1>13. SlabOK' /\ (queue \in Queues)' /\ (sent \in [Socks -> SUBSET Socks])'
       /\ (closes \in [Socks -> Nat])' /\ OutputIsolation'
  BY <1>1, <1>2, <1>10
  DEF CoreInv, SlabOK, Registrations, Keys, Queues, Commands, KeyCommands,
      OutputIsolation
<1>14. OwnInv'
  BY <1>1, <1>2, <1>12 DEF OwnInv, Live, Keys
<1>15. UniqueInv'
  BY <1>1, <1>2, <1>3, <1>11 DEF UniqueInv, Admitted, Live, Keys
<1>16. CountInv'
  BY <1>1, <1>2 DEF CountInv, LiveKeys, Live, Keys
<1>17. ClosesInv' /\ SockInv'
  BY <1>1, <1>2, <1>3, <1>11 DEF ClosesInv, Kept, SockInv
<1>18. QueueInv'
  BY <1>1, <1>9, <1>10 DEF QueueInv
<1>19. CoreInv'
  BY <1>11, <1>13, <1>14, <1>15, <1>16, <1>17, <1>18 DEF CoreInv, SlabInv
<1>20. LoopInv'
  BY <1>1, LoopFrame DEF Inv
<1> QED
  BY <1>1, <1>19, <1>20 DEF Inv

(* The commands application threads send.                                  *)
LEMMA AppCommandOK ==
  ASSUME CoreInv, NEW c \in AppCommands
  PROVE  /\ c \in Commands /\ c.op # "Register"
         /\ c.op = "AsyncWrite" => c.seq <= Len(gfds)
<1>1. /\ DOMAIN gfds = 1..Len(gfds) /\ Len(gfds) \in Nat
      /\ \A i \in DOMAIN gfds : gfds[i] \in Registrations
  BY SeqElements DEF CoreInv, SlabOK
<1>2. CASE \E i \in DOMAIN gfds : c = [op |-> "AsyncWrite", seq |-> i]
  BY <1>1, <1>2 DEF Commands
<1>3. CASE \E i \in DOMAIN gfds : c = [op |-> "Close", key |-> gfds[i].key]
  <2>1. PICK i \in DOMAIN gfds : c = [op |-> "Close", key |-> gfds[i].key]
    BY <1>3
  <2>2. gfds[i].key \in Keys
    BY <1>1 DEF Registrations
  <2> QED
    BY <2>1, <2>2, CommandFields
<1>4. CASE c = [op |-> "Shutdown"]
  BY <1>4 DEF Commands
<1> QED
  BY <1>2, <1>3, <1>4 DEF AppCommands

(* The application sends a command for any registration there has been.    *)
LEMMA AppStep ==
  ASSUME Inv, NEW c \in AppCommands, AppSend(c)
  PROVE  Inv'
<1>1. /\ UNCHANGED <<scene, slab, sk, sent, closes>>
      /\ UNCHANGED <<scene, conns, control, got>>
      /\ queue' = Push(queue, c) /\ app < MaxApp /\ app' = app + 1
  BY DEF AppSend, slab, history
<1>2. /\ queue \in Queues /\ gfds \in Seq(Registrations)
      /\ QueueOK(queue, Len(gfds), Registering)
  BY DEF Inv, CoreInv, SlabOK, QueueInv
<1>4. c \in Commands /\ c.op # "Register" /\ (c.op = "AsyncWrite" => c.seq <= Len(gfds))
  BY AppCommandOK DEF Inv
<1>5. queue' \in Queues /\ QueueOK(queue', Len(gfds), Registering)
  BY <1>1, <1>2, <1>4, PushOK
<1>6. CoreInv'
  BY <1>1, <1>5, CoreQueue DEF Inv
<1>7. LoopInv'
  <2>1. UNCHANGED <<pc, budget, cur, batch, waking>>
    BY <1>1 DEF control
  <2>2. InputIsolation'
    BY <1>1, LoopNow DEF InputIsolation, Inv
  <2>3. pc' = "stopped" => \A k \in Keys : ~Live(k)'
    BY <1>1, <2>1, LoopNow DEF Live, Inv
  <2>4. app' \in 0..MaxApp
    BY <1>1, LoopNow, EventLoopAssumption DEF Inv
  <2> QED
    BY <1>1, <2>1, <2>2, <2>3, <2>4, LoopNow, LoopNext DEF Inv
<1> QED
  BY <1>1, <1>6, <1>7 DEF Inv

-----------------------------------------------------------------------------
(* The loop.                                                               *)

(* The end of a write: reregister, or close on an error.                   *)
LEMMA CoreWritten ==
  ASSUME CoreInv, NEW k \in Keys, Live(k), NEW r,
         StepOK(r, k, conns[k].sock, conns[k].seq, Len(gfds), Registering),
         IF r.ok THEN Keep(Reregistered(r)) /\ UNCHANGED <<pool, count, closes>>
                 ELSE CloseAs(r, FALSE),
         UNCHANGED <<scene, gfds>>
  PROVE  CoreInv' /\ \A l \in Keys : Live(l)' => Live(l)
<1>1. CASE r.ok
  <2>1. conns[k].sock \in Socks
    BY DEF CoreInv, SlabOK, Live, Connections
  <2>2. StepOK(Reregistered(r), k, conns[k].sock, conns[k].seq, Len(gfds), Registering)
    BY <2>1, RegisteredOK
  <2> QED
    BY <1>1, <2>2, CoreKeep
<1>2. CASE ~r.ok
  BY <1>2, CoreClose
<1> QED
  BY <1>1, <1>2

(* close_connection, whether or not the slot is in use.                    *)
LEMMA CoreCloseConnection ==
  ASSUME CoreInv, NEW k \in Keys, NEW graceful, NEW q \in Queues,
         QueueOK(q, Len(gfds), Registering),
         CloseConnection(k, graceful, q), UNCHANGED <<scene, gfds>>
  PROVE  CoreInv' /\ \A l \in Keys : Live(l)' => Live(l)
<1>1. CASE Live(k)
  BY <1>1, NowOK, CoreClose DEF CloseConnection
<1>2. CASE ~Live(k)
  <2>1. UNCHANGED <<scene, slab, sk, sent, closes>> /\ queue' = q
    BY <1>2 DEF CloseConnection, slab
  <2> QED
    BY <2>1, CoreQueue DEF Live, slab
<1> QED
  BY <1>1, <1>2

(* Only the loop's own state changes.                                      *)
LEMMA ControlStep ==
  ASSUME Inv, UNCHANGED <<scene, slab, sk, queue, app, history>>,
         pc' \in Places, pc' # "stopped", budget' \in 0..MaxBatch,
         cur' \in Currents, batch' \subseteq Events, waking' \in BOOLEAN,
         pc' \in {"write", "read", "rereg"} => cur'.key \in Keys
  PROVE  Inv'
<1>1. UNCHANGED <<scene, slab, sk, queue, sent, closes>> /\ UNCHANGED <<app, got>>
  BY DEF history
<1>2. CoreInv'
  BY <1>1, CoreFrame DEF Inv
<1>3. InputIsolation'
  BY <1>1, LoopNow DEF InputIsolation, Inv
<1>4. LoopInv'
  BY <1>1, <1>3, LoopNow, LoopNext DEF Inv
<1> QED
  BY <1>1, <1>2, <1>4 DEF Inv

(* epoll_wait: the socket of every event belongs to a slot.                *)
LEMMA PollStep ==
  ASSUME Inv, Poll
  PROVE  Inv'
<1>1. /\ UNCHANGED <<scene, slab, queue, sent, closes>>
      /\ UNCHANGED <<cur, app, got>> /\ pc' \in {"cmd", "events"}
      /\ budget' \in {MaxBatch, budget} /\ waking' \in BOOLEAN
      /\ sk' = [s \in Socks |-> [sk[s] EXCEPT !.edge = FALSE]]
  BY DEF Poll, StartCommands, history
<1>2. sk \in [Socks -> Sockets] /\ UniqueInv /\ SockInv
  BY DEF Inv, CoreInv, SlabInv
<1>3. CoreInv'
  <2>1. \A x \in Sockets :
          /\ [x EXCEPT !.edge = FALSE] \in Sockets
          /\ [x EXCEPT !.edge = FALSE].st = x.st
          /\ [x EXCEPT !.edge = FALSE].rx = x.rx
          /\ [x EXCEPT !.edge = FALSE].left = x.left
    BY DEF Sockets
  <2>2. /\ sk' \in [Socks -> Sockets]
        /\ \A s \in Socks : /\ sk'[s].st = sk[s].st
                            /\ sk'[s].rx + sk'[s].left <= MaxRx
    BY <1>1, <1>2, <2>1 DEF SockInv
  <2> QED
    BY <1>1, <2>2, CoreSocks DEF Inv
<1>4. batch' \subseteq Events
  <2>1. PICK bare \in BOOLEAN : batch' = {EventOf(s, bare) : s \in Reported}
    BY DEF Poll
  <2> SUFFICES ASSUME NEW s \in Reported
               PROVE  EventOf(s, bare) \in Events
    BY <2>1
  <2>2. s \in Socks /\ sk[s].st = "open" /\ sk[s] \in Sockets
    BY <1>2 DEF Reported
  <2>3. \E k \in Keys : Live(k) /\ conns[k].sock = s
    BY <1>2, <2>2 DEF UniqueInv, Admitted
  <2>4. KeyOf(s) \in Keys
    BY <2>3 DEF KeyOf
  <2> DEFINE x == sk[s]
  <2>5. /\ (x.rint /\ (x.rx > 0 \/ x.fin \/ x.err) /\ ~(x.err /\ bare)) \in BOOLEAN
        /\ (x.wint /\ (x.room \/ x.err) /\ ~(x.err /\ bare)) \in BOOLEAN
        /\ x.err \in BOOLEAN
    BY <2>2 DEF Sockets
  <2> QED
    BY <2>4, <2>5 DEF EventOf, Events
<1>5. LoopInv'
  <2>1. budget' \in 0..MaxBatch
    BY <1>1, LoopNow, EventLoopAssumption DEF Inv
  <2>2. InputIsolation'
    BY <1>1, LoopNow DEF InputIsolation, Inv
  <2> QED
    BY <1>1, <1>4, <2>1, <2>2, LoopNow, LoopNext DEF Inv, Places
<1> QED
  BY <1>1, <1>3, <1>5 DEF Inv

(* The command process_command takes.                                      *)
LEMMA TakeOK ==
  ASSUME Inv, NEW op, Take(op)
  PROVE  /\ pc = "cmd" /\ budget' \in 0..MaxBatch
         /\ NextCommand(queue) \in Commands /\ NextCommand(queue).op = op
         /\ Rest(queue) \in Queues
         /\ QueueOK(Rest(queue), Len(gfds), Registering)
         /\ op = "AsyncWrite" => NextCommand(queue).seq \in 1..Len(gfds)
         /\ op = "Register" =>
              /\ NextCommand(queue).sock \in Registering
              /\ QueueOK(Rest(queue), Len(gfds), Registering \ {NextCommand(queue).sock})
<1>1. /\ pc = "cmd" /\ budget > 0 /\ budget' = budget - 1
      /\ Queued(queue) /\ NextCommand(queue).op = op
  BY DEF Take
<1>2. budget' \in 0..MaxBatch
  BY <1>1, LoopNow, EventLoopAssumption DEF Inv
<1>3. queue \in Queues /\ QueueOK(queue, Len(gfds), Registering)
  BY DEF Inv, CoreInv, QueueInv
<1>4. Len(gfds) \in Nat
  BY SeqElements DEF Inv, CoreInv, SlabOK
<1>5. /\ NextCommand(queue) \in Commands
      /\ Rest(queue) \in Queues /\ QueueOK(Rest(queue), Len(gfds), Registering)
      /\ NextCommand(queue).op = "AsyncWrite" => NextCommand(queue).seq <= Len(gfds)
      /\ NextCommand(queue).op = "Register" =>
           /\ NextCommand(queue).sock \in Registering
           /\ QueueOK(Rest(queue), Len(gfds), Registering \ {NextCommand(queue).sock})
  BY <1>1, <1>3, RestOK
<1>6. op = "AsyncWrite" => NextCommand(queue).seq \in Nat \ {0}
  BY <1>1, <1>5, CommandFields
<1> QED
  BY <1>1, <1>2, <1>4, <1>5, <1>6

(* The loop stays in process_command, or goes from it to shutdown.         *)
LEMMA LoopCommand ==
  ASSUME LoopInv, UNCHANGED <<scene, cur, batch, waking, app, got>>,
         pc = "cmd", pc' \in {"cmd", "shutdown"}, budget' \in 0..MaxBatch
  PROVE  LoopInv'
<1>1. InputIsolation'
  BY LoopNow DEF InputIsolation
<1> QED
  BY <1>1, LoopNow, LoopNext DEF Places

(* AsyncWrite: a gfd that is still the occupant's names its socket.        *)
LEMMA AsyncWriteStep ==
  ASSUME Inv, ProcessAsyncWrite
  PROVE  Inv'
<1> PICK g, k, q : /\ g = NextCommand(queue).seq /\ k = gfds[g].key
                   /\ q = Rest(queue)
  OBVIOUS
<1>1. /\ pc = "cmd" /\ budget' \in 0..MaxBatch /\ q \in Queues
      /\ QueueOK(q, Len(gfds), Registering) /\ g \in 1..Len(gfds)
  BY TakeOK DEF ProcessAsyncWrite
<1>2. UNCHANGED <<scene, gfds, pc, cur, batch, waking, app, got>>
  BY DEF ProcessAsyncWrite
<1>3. gfds[g] \in Registrations
  <2>1. gfds \in Seq(Registrations)
    BY DEF Inv, CoreInv, SlabOK
  <2>2. /\ DOMAIN gfds = 1..Len(gfds)
        /\ \A i \in DOMAIN gfds : gfds[i] \in Registrations
    BY <2>1, SeqElements
  <2> QED
    BY <1>1, <2>2, Zenon
<1>4. k \in Keys
  BY <1>3 DEF Registrations
<1>5. CASE SameGfd(k, g)
  <2>1. Live(k) /\ conns[k].seq = g
    BY <1>5 DEF SameGfd
  <2>2. gfds[g].sock = conns[k].sock
    <3>1. gfds[conns[k].seq] = [sock |-> conns[k].sock, key |-> k, kept |-> TRUE]
      BY <1>4, <2>1 DEF Inv, CoreInv, SlabInv, OwnInv
    <3> QED
      BY <2>1, <3>1
  <2>3. PICK r \in WriteOutcomes(Now(k, q), gfds[g].sock) :
          IF r.ok
          THEN Keep(Reregistered(r)) /\ UNCHANGED <<pool, count, closes>>
          ELSE CloseAs(r, FALSE)
    BY <1>5 DEF ProcessAsyncWrite
  <2>4. conns[k].sock \in Socks
        /\ StepOK(Now(k, q), k, conns[k].sock, conns[k].seq, Len(gfds), Registering)
    BY <1>1, <1>4, <2>1, NowOK DEF Inv
  <2>5. StepOK(r, k, conns[k].sock, conns[k].seq, Len(gfds), Registering)
    BY <2>2, <2>3, <2>4, WriteOK
  <2>6. CoreInv'
    BY <1>2, <1>4, <2>1, <2>3, <2>5, CoreWritten DEF Inv
  <2>7. LoopInv'
    BY <1>1, <1>2, LoopCommand DEF Inv
  <2> QED
    BY <1>2, <2>6, <2>7 DEF Inv
<1>6. CASE ~SameGfd(k, g)
  <2>1. UNCHANGED <<scene, slab, sk, sent, closes>> /\ queue' = q
    BY <1>2, <1>6 DEF ProcessAsyncWrite, slab
  <2>2. CoreInv'
    BY <1>1, <2>1, CoreQueue DEF Inv
  <2>3. LoopInv'
    BY <1>1, <1>2, LoopCommand DEF Inv
  <2> QED
    BY <1>2, <2>2, <2>3 DEF Inv
<1> QED
  BY <1>5, <1>6

(* Close, Register, Read, Write and Shutdown.                              *)
LEMMA CommandStep ==
  ASSUME Inv,
         ProcessRegister \/ ProcessClose \/ ProcessReadWrite \/ ProcessShutdown
  PROVE  Inv'
<1> PICK m, q : m = NextCommand(queue) /\ q = Rest(queue)
  OBVIOUS
<1>1. CASE ProcessRegister
  <2>1. Take("Register") /\ Register(m.sock, q)
    BY <1>1 DEF ProcessRegister
  <2>2. /\ pc = "cmd" /\ budget' \in 0..MaxBatch /\ q \in Queues
        /\ m.sock \in Registering /\ QueueOK(q, Len(gfds), Registering \ {m.sock})
    BY <2>1, TakeOK
  <2>3. m.sock \in Socks /\ sk[m.sock].st = "queued"
    BY <2>2 DEF Registering
  <2>4. CoreInv'
    BY <2>1, <2>2, <2>3, CoreRegister DEF Inv
  <2>5. /\ UNCHANGED <<scene, cur, batch, waking, app, got>>
        /\ pc' \in {pc, "shutdown"}
    BY <2>1 DEF Register
  <2>6. LoopInv'
    BY <2>2, <2>5, LoopCommand DEF Inv
  <2> QED
    BY <2>4, <2>5, <2>6 DEF Inv
<1>2. CASE ProcessClose
  <2>1. /\ Take("Close") /\ CloseConnection(m.key, TRUE, q)
        /\ UNCHANGED <<scene, gfds, pc, cur, batch, waking, app, got>>
    BY <1>2 DEF ProcessClose
  <2>2. /\ pc = "cmd" /\ budget' \in 0..MaxBatch /\ q \in Queues
        /\ m \in Commands /\ m.op = "Close" /\ QueueOK(q, Len(gfds), Registering)
    BY <2>1, TakeOK
  <2>3. m.key \in Keys
    BY <2>2, CommandFields
  <2>4. CoreInv'
    BY <2>1, <2>2, <2>3, CoreCloseConnection DEF Inv
  <2>5. LoopInv'
    BY <2>1, <2>2, LoopCommand DEF Inv
  <2> QED
    BY <2>1, <2>4, <2>5 DEF Inv
<1>3. CASE ProcessReadWrite
  <2>1. PICK op \in {"Read", "Write"}, step \in {"read", "write"} :
          Take(op) /\ Start(step, m.key, FALSE, TRUE)
    BY <1>3 DEF ProcessReadWrite
  <2>2. /\ budget' \in 0..MaxBatch /\ q \in Queues
        /\ m \in Commands /\ m.op = op /\ QueueOK(q, Len(gfds), Registering)
    BY <2>1, TakeOK
  <2>3. m.key \in Keys
    BY <2>1, <2>2, CommandFields
  <2>4. /\ UNCHANGED <<scene, slab, sk, sent, closes>>
        /\ UNCHANGED <<batch, waking, app, got>> /\ queue' = q
    BY <1>3 DEF ProcessReadWrite, history
  <2>5. CoreInv'
    BY <2>2, <2>4, CoreQueue DEF Inv
  <2>6. pc' = step /\ cur' = [key |-> m.key, r |-> FALSE, n |-> 0, cmd |-> TRUE]
    BY <2>1 DEF Start
  <2>7. cur' \in Currents /\ cur'.key = m.key
    <3>1. 0 \in 0..MaxRead
      BY EventLoopAssumption
    <3> QED
      BY <2>3, <2>6, <3>1 DEF Currents
  <2>8. InputIsolation'
    BY <2>4, LoopNow DEF InputIsolation, Inv
  <2>9. LoopInv'
    BY <2>1, <2>2, <2>3, <2>4, <2>6, <2>7, <2>8, LoopNow, LoopNext DEF Inv, Places
  <2> QED
    BY <2>4, <2>5, <2>9 DEF Inv
<1>4. CASE ProcessShutdown
  <2>1. /\ Take("Shutdown") /\ pc' = "shutdown" /\ queue' = q
        /\ UNCHANGED <<scene, slab, sk, sent, closes>>
        /\ UNCHANGED <<cur, batch, waking, app, got>>
    BY <1>4 DEF ProcessShutdown, history
  <2>2. /\ pc = "cmd" /\ budget' \in 0..MaxBatch /\ q \in Queues
        /\ QueueOK(q, Len(gfds), Registering)
    BY <2>1, TakeOK
  <2>3. CoreInv'
    BY <2>1, <2>2, CoreQueue DEF Inv
  <2>4. LoopInv'
    BY <2>1, <2>2, LoopCommand DEF Inv
  <2> QED
    BY <2>1, <2>3, <2>4 DEF Inv
<1> QED
  BY <1>1, <1>2, <1>3, <1>4

(* The steps between the parts of an iteration.                            *)
LEMMA BetweenStep ==
  ASSUME Inv,
         EndCommands \/ HandleWake \/ EndEvents \/ EndTick
           \/ \E ev \in batch : ProcessIO(ev)
  PROVE  Inv'
<1>1. /\ budget \in 0..MaxBatch /\ cur \in Currents /\ batch \subseteq Events
      /\ waking \in BOOLEAN
  BY LoopNow DEF Inv
<1>2. 0 \in 0..MaxBatch /\ MaxBatch \in 0..MaxBatch /\ 0 \in 0..MaxRead
  BY EventLoopAssumption
<1>3. CASE EndCommands
  BY <1>1, <1>2, <1>3, ControlStep DEF EndCommands, Places
<1>4. CASE HandleWake
  BY <1>1, <1>2, <1>4, ControlStep DEF HandleWake, StartCommands, Places
<1>5. CASE EndEvents
  BY <1>1, <1>5, ControlStep DEF EndEvents, Places
<1>6. CASE EndTick
  <2>1. pc' \in {"poll", "shutdown"}
    BY <1>6 DEF EndTick
  <2> QED
    BY <1>1, <1>6, <2>1, ControlStep DEF EndTick, Places
<1>7. CASE \E ev \in batch : ProcessIO(ev)
  <2>1. PICK ev \in batch : ProcessIO(ev)
    BY <1>7
  <2>2. ev \in Events
    BY <1>1
  <2>3. ev.key \in Keys /\ (ev.e \/ ev.r) \in BOOLEAN
    BY <2>2 DEF Events
  <2>4. /\ pc' \in {"write", "read"} /\ batch' = batch \ {ev}
        /\ cur' = [key |-> ev.key, r |-> ev.e \/ ev.r, n |-> 0, cmd |-> FALSE]
        /\ UNCHANGED <<scene, slab, sk, queue, app, history>>
        /\ UNCHANGED <<budget, waking>>
    BY <2>1 DEF ProcessIO, Start
  <2>5. cur' \in Currents /\ cur'.key = ev.key
    BY <1>2, <2>3, <2>4 DEF Currents
  <2> QED
    BY <1>1, <2>3, <2>4, <2>5, ControlStep DEF Places
<1> QED
  BY <1>3, <1>4, <1>5, <1>6, <1>7

(* accept_process and an event that is only an error.                      *)
LEMMA EventStep ==
  ASSUME Inv,
         \/ \E s \in Socks : AcceptProcess(s)
         \/ \E ev \in batch : ErrorEvent(ev)
  PROVE  Inv'
<1>1. /\ queue \in Queues /\ QueueOK(queue, Len(gfds), Registering)
      /\ Len(gfds) \in Nat
  BY SeqElements DEF Inv, CoreInv, QueueInv, SlabOK
<1>2. CASE \E s \in Socks : AcceptProcess(s)
  <2>1. PICK s \in Socks : AcceptProcess(s)
    BY <1>2
  <2>2. /\ pc = "events" /\ sk[s].st = "new" /\ Register(s, queue)
        /\ UNCHANGED budget
    BY <2>1 DEF AcceptProcess
  <2>3. Registering \ {s} = Registering
    BY <2>2 DEF Registering
  <2>4. CoreInv'
    BY <1>1, <2>2, <2>3, CoreRegister DEF Inv
  <2>5. /\ UNCHANGED <<scene, cur, batch, waking, app, got>>
        /\ pc' \in {"events", "shutdown"}
    BY <2>2 DEF Register
  <2>6. InputIsolation'
    BY <2>5, LoopNow DEF InputIsolation, Inv
  <2>7. LoopInv'
    BY <2>2, <2>5, <2>6, LoopNow, LoopNext DEF Inv, Places
  <2> QED
    BY <2>4, <2>5, <2>7 DEF Inv
<1>3. CASE \E ev \in batch : ErrorEvent(ev)
  <2>1. PICK ev \in batch : ErrorEvent(ev)
    BY <1>3
  <2>2. /\ pc = "events" /\ batch' = batch \ {ev}
        /\ CloseConnection(ev.key, FALSE, queue)
        /\ UNCHANGED <<scene, gfds, pc, budget, cur, waking, app, got>>
    BY <2>1 DEF ErrorEvent
  <2>3. ev \in Events
    BY LoopNow DEF Inv
  <2>4. ev.key \in Keys
    BY <2>3 DEF Events
  <2>5. CoreInv'
    BY <1>1, <2>2, <2>4, CoreCloseConnection DEF Inv
  <2>6. InputIsolation'
    BY <2>2, LoopNow DEF InputIsolation, Inv
  <2>7. LoopInv'
    BY <2>2, <2>6, LoopNow, LoopNext DEF Inv
  <2> QED
    BY <2>2, <2>5, <2>7 DEF Inv
<1> QED
  BY <1>2, <1>3

(* Where a socket operation continues.                                     *)
LEMMA LoopAfter ==
  ASSUME LoopInv, pc \in {"write", "read"}, AfterWrite \/ AfterRead,
         UNCHANGED <<scene, budget, batch, waking, app>>,
         got' \in [Socks -> SUBSET Socks], InputIsolation'
  PROVE  LoopInv'
<1>1. cur.key \in Keys /\ cur \in Currents
  BY LoopNow
<1>2. CASE pc' = "cmd" /\ cur' = Idle
  BY <1>2, LoopNow, LoopNext, IdleOK DEF Places
<1>3. CASE pc' \in {"read", "rereg"} /\ UNCHANGED cur
  BY <1>1, <1>3, LoopNow, LoopNext DEF Places
<1> QED
  BY <1>2, <1>3 DEF AfterWrite, AfterRead

(* write_socket.                                                           *)
LEMMA WriteStep ==
  ASSUME Inv, WriteSocket
  PROVE  Inv'
<1> PICK k, s, g, n, W : /\ k = cur.key /\ s = conns[k].sock
                         /\ g = conns[k].seq /\ n = Len(gfds)
                         /\ W = Registering
  OBVIOUS
<1>1. /\ pc = "write" /\ AfterWrite
      /\ UNCHANGED <<scene, gfds, budget, batch, waking, app, got>>
  BY DEF WriteSocket
<1>2. k \in Keys
  BY <1>1, LoopNow DEF Inv
<1>3. InputIsolation' /\ got' \in [Socks -> SUBSET Socks]
  BY <1>1, LoopNow DEF InputIsolation, Inv
<1>4. LoopInv'
  BY <1>1, <1>3, LoopAfter DEF Inv
<1>5. queue \in Queues /\ QueueOK(queue, n, W)
  BY DEF Inv, CoreInv, QueueInv
<1>6. CASE ~Live(k)
  <2>1. UNCHANGED <<scene, slab, sk, queue, sent, closes>>
    BY <1>1, <1>6 DEF WriteSocket, slab
  <2>2. CoreInv'
    BY <2>1, CoreFrame DEF Inv
  <2> QED
    BY <1>1, <1>4, <2>2 DEF Inv
<1>7. CASE Live(k)
  <2> PICK r : r = Now(k, queue)
    OBVIOUS
  <2>1. s \in Socks /\ StepOK(r, k, s, g, n, W)
    BY <1>2, <1>5, <1>7, NowOK DEF Inv
  <2>2. ASSUME NEW d \in FlushOutcomes(r),
               IF d.ok
               THEN Keep(Reregistered(d)) /\ UNCHANGED <<pool, count, closes>>
               ELSE CloseAs(d, FALSE)
        PROVE  CoreInv'
    <3>1. StepOK(d, k, s, g, n, W)
      BY <2>1, FlushOK
    <3> QED
      BY <1>1, <1>2, <1>7, <2>2, <3>1, CoreWritten DEF Inv
  <2>3. ASSUME Keep([r EXCEPT !.sent = @ \cup r.c.out,
                              !.q = Push(@, [op |-> "Write", key |-> k])]),
               UNCHANGED <<pool, count, closes>>
        PROVE  CoreInv'
    <3> DEFINE m == [op |-> "Write", key |-> k]
               d == [r EXCEPT !.sent = @ \cup r.c.out, !.q = Push(@, m)]
    <3>1. /\ r \in Steps /\ r.q \in Queues /\ r.sent \subseteq Socks
          /\ r.c.out \subseteq Socks /\ QueueOK(r.q, n, W)
      BY <2>1, StepFields DEF StepOK
    <3>2. m \in Commands /\ m.op = "Write"
      BY <1>2, CommandFields
    <3> HIDE DEF m
    <3>3. Push(r.q, m) \in Queues /\ QueueOK(Push(r.q, m), n, W)
      BY <3>1, <3>2, PushOK
    <3>4. /\ d \in Steps /\ d.key = r.key /\ d.c = r.c /\ d.x = r.x
          /\ d.q = Push(r.q, m) /\ d.sent = r.sent \cup r.c.out
      BY <3>1, <3>3 DEF Steps
    <3>5. StepOK(d, k, s, g, n, W)
      BY <2>1, <3>3, <3>4 DEF StepOK
    <3>6. Keep(d)
      BY <2>3 DEF m
    <3> HIDE DEF d
    <3> QED
      BY <1>1, <1>2, <1>7, <2>3, <3>5, <3>6, CoreKeep DEF Inv
  <2>4. CoreInv'
    <3>1. \/ \E d \in FlushOutcomes(r) :
               IF d.ok
               THEN Keep(Reregistered(d)) /\ UNCHANGED <<pool, count, closes>>
               ELSE CloseAs(d, FALSE)
          \/ /\ Keep([r EXCEPT !.sent = @ \cup r.c.out,
                               !.q = Push(@, [op |-> "Write", key |-> k])])
             /\ UNCHANGED <<pool, count, closes>>
      BY <1>7 DEF WriteSocket
    <3> QED
      BY <2>2, <2>3, <3>1
  <2> QED
    BY <1>1, <1>4, <2>4 DEF Inv
<1> QED
  BY <1>6, <1>7

(* read_socket, where it stops reading.                                    *)
LEMMA ReadEndStep ==
  ASSUME Inv, ReadCompleted \/ ReadYield \/ ReadClosed
  PROVE  Inv'
<1> PICK k : k = cur.key
  OBVIOUS
<1>1. /\ pc = "read" /\ AfterRead
      /\ UNCHANGED <<scene, gfds, budget, batch, waking, app, got>>
  BY DEF ReadCompleted, ReadYield, ReadClosed, Reading, slab, history
<1>2. k \in Keys
  BY <1>1, LoopNow DEF Inv
<1>3. InputIsolation' /\ got' \in [Socks -> SUBSET Socks]
  BY <1>1, LoopNow DEF InputIsolation, Inv
<1>4. LoopInv'
  BY <1>1, <1>3, LoopAfter DEF Inv
<1>5. queue \in Queues /\ QueueOK(queue, Len(gfds), Registering)
  BY DEF Inv, CoreInv, QueueInv
<1>6. CASE ReadCompleted
  <2>1. UNCHANGED <<scene, slab, sk, queue, sent, closes>>
    BY <1>6 DEF ReadCompleted, history
  <2>2. CoreInv'
    BY <2>1, CoreFrame DEF Inv
  <2> QED
    BY <1>1, <1>4, <2>2 DEF Inv
<1>7. CASE ReadYield
  <2> DEFINE m == [op |-> "Read", key |-> k]
  <2>1. /\ UNCHANGED <<scene, slab, sk, sent, closes>>
        /\ queue' = Push(queue, m)
    BY <1>7 DEF ReadYield, history
  <2>2. m \in Commands /\ m.op = "Read"
    BY <1>2, CommandFields
  <2> HIDE DEF m
  <2>3. queue' \in Queues /\ QueueOK(queue', Len(gfds), Registering)
    BY <1>5, <2>1, <2>2, PushOK
  <2>4. CoreInv'
    BY <2>1, <2>3, CoreQueue DEF Inv
  <2> QED
    BY <1>1, <1>4, <2>4 DEF Inv
<1>8. CASE ReadClosed
  <2>1. Live(k) /\ \E graceful \in BOOLEAN : CloseAs(Now(k, queue), graceful)
    BY <1>8 DEF ReadClosed, Reading, Current
  <2>2. StepOK(Now(k, queue), k, conns[k].sock, conns[k].seq, Len(gfds), Registering)
    BY <1>2, <1>5, <2>1, NowOK DEF Inv
  <2>3. CoreInv'
    BY <1>1, <1>2, <2>1, <2>2, CoreClose DEF Inv
  <2> QED
    BY <1>1, <1>4, <2>3 DEF Inv
<1> QED
  BY <1>6, <1>7, <1>8

(* Received, as a function of the step.                                    *)
Receive(r) == [r EXCEPT !.x.rx = @ - 1, !.c.io = {r.c.sock}]

(* A chunk is received, consumed or kept: always bytes of the own socket.  *)
LEMMA InputOK ==
  ASSUME NEW r, NEW k, NEW s \in Socks, NEW g, NEW n, NEW W,
         StepOK(r, k, s, g, n, W)
  PROVE  /\ StepOK(Consumed(r), k, s, g, n, W)
         /\ StepOK(Stashed(r), k, s, g, n, W)
         /\ r.x.rx > 0 => StepOK(Receive(r), k, s, g, n, W)
<1>1. /\ r \in Steps /\ r.c \in Connections /\ r.x \in Sockets /\ r.c.sock = s
      /\ r.c.in \subseteq {s} /\ r.c.io \subseteq {s} /\ r.c.in \subseteq Socks
      /\ r.c.io \subseteq Socks
  BY StepFields DEF StepOK
<1>2. ASSUME NEW i \in SUBSET {s}, NEW o \in SUBSET {s}, NEW d,
             d = [r EXCEPT !.c.in = i, !.c.io = o]
      PROVE  StepOK(d, k, s, g, n, W)
  <2> DEFINE c == [r.c EXCEPT !.in = i, !.io = o]
  <2>1. /\ c \in Connections /\ c.sock = r.c.sock /\ c.seq = r.c.seq
        /\ c.in = i /\ c.io = o /\ c.out = r.c.out
    BY <1>1 DEF Connections
  <2>2. /\ d \in Steps /\ d.c = c /\ d.key = r.key /\ d.x = r.x
        /\ d.q = r.q /\ d.sent = r.sent
    BY <1>1, <1>2, <2>1 DEF Steps
  <2> QED
    BY <2>1, <2>2 DEF StepOK
<1>3. StepOK(Consumed(r), k, s, g, n, W)
  BY <1>2 DEF Consumed
<1>4. StepOK(Stashed(r), k, s, g, n, W)
  BY <1>1, <1>2 DEF Stashed
<1>5. ASSUME r.x.rx > 0, NEW d, d = Receive(r)
      PROVE  StepOK(d, k, s, g, n, W)
  <2> DEFINE c == [r.c EXCEPT !.io = {s}]
             x == [r.x EXCEPT !.rx = @ - 1]
  <2>1. /\ r.x.rx \in 0..MaxRx /\ r.x.left \in 0..MaxRx /\ MaxRx \in Nat
        /\ r.x.rx - 1 \in 0..MaxRx /\ r.x.rx + r.x.left <= MaxRx
    BY <1>1, <1>5, StepFields, EventLoopAssumption DEF StepOK
  <2>2. /\ c \in Connections /\ c.sock = r.c.sock /\ c.seq = r.c.seq
        /\ c.in = r.c.in /\ c.io = {s} /\ c.out = r.c.out
    BY <1>1 DEF Connections
  <2>3. /\ x \in Sockets /\ x.st = r.x.st /\ x.rx = r.x.rx - 1
        /\ x.left = r.x.left
    BY <1>1, <2>1 DEF Sockets
  <2>4. /\ d \in Steps /\ d.c = c /\ d.key = r.key /\ d.x = x
        /\ d.q = r.q /\ d.sent = r.sent
    BY <1>1, <1>5, <2>2, <2>3 DEF Steps, Receive
  <2> HIDE DEF c, x
  <2>5. x.rx + x.left <= MaxRx
    BY <2>1, <2>3
  <2> QED
    BY <2>2, <2>3, <2>4, <2>5 DEF StepOK
<1> QED
  BY <1>3, <1>4, <1>5

(* process_read: one chunk, and what on_traffic makes of it.               *)
LEMMA ReadChunkStep ==
  ASSUME Inv, ReadChunk
  PROVE  Inv'
<1> PICK k, s, g, n, W : /\ k = cur.key /\ s = conns[k].sock
                         /\ g = conns[k].seq /\ n = Len(gfds)
                         /\ W = Registering
  OBVIOUS
<1> PICK r0, r1 : r0 = Current /\ r1 = Received
  OBVIOUS
<1>1. /\ pc = "read" /\ Live(k) /\ WithinBatch /\ r0.x.rx > 0
      /\ got' = [got EXCEPT ![r0.c.sock] = @ \cup r1.c.in \cup r1.c.io]
      /\ UNCHANGED <<scene, gfds, budget, batch, waking, app>>
  BY DEF ReadChunk, Reading
<1>2. k \in Keys /\ cur \in Currents /\ cur.n \in 0..MaxRead
  BY <1>1, LoopNow DEF Inv
<1>3. queue \in Queues /\ QueueOK(queue, n, W)
  BY DEF Inv, CoreInv, QueueInv
<1>4. s \in Socks /\ StepOK(r0, k, s, g, n, W)
  BY <1>1, <1>2, <1>3, NowOK DEF Inv, Current
<1>5. StepOK(r1, k, s, g, n, W)
  <2>1. r1 = Receive(r0)
    BY DEF Received, Receive
  <2>2. r0.x.rx > 0 => StepOK(Receive(r0), k, s, g, n, W)
    BY <1>4, InputOK
  <2> QED
    BY <1>1, <2>1, <2>2
<1>6. got' \in [Socks -> SUBSET Socks] /\ InputIsolation'
  <2>1. /\ r0.c.sock = s /\ r1.c.in \subseteq {s} /\ r1.c.io \subseteq {s}
        /\ got \in [Socks -> SUBSET Socks] /\ InputIsolation
    BY <1>4, <1>5, LoopNow DEF StepOK, Inv
  <2>2. got' = [got EXCEPT ![s] = @ \cup r1.c.in \cup r1.c.io]
    BY <1>1, <2>1
  <2>3. got' \in [Socks -> SUBSET Socks]
    BY <1>4, <2>1, <2>2
  <2>4. InputIsolation'
    BY <1>4, <2>1, <2>2 DEF InputIsolation
  <2> QED
    BY <2>3, <2>4
<1>7. PICK given \in {r1, Consumed(r1)} :
        \E r \in Callback("on_traffic", given) :
          \/ /\ r.act = "None"
             /\ Keep(IF cur.cmd THEN Loose(Stashed(r)) ELSE Stashed(r))
             /\ cur' = [cur EXCEPT !.n = @ + 1]
             /\ UNCHANGED <<pool, count, closes, pc>>
          \/ /\ r.act = "Close"
             /\ CloseAs(r, TRUE)
             /\ AfterRead
          \/ /\ r.act = "Shutdown"
             /\ Keep(r)
             /\ cur' = Idle
             /\ pc' = "shutdown"
             /\ UNCHANGED <<pool, count, closes>>
  BY DEF ReadChunk
<1>8. PICK r \in Callback("on_traffic", given) :
        \/ /\ r.act = "None"
           /\ Keep(IF cur.cmd THEN Loose(Stashed(r)) ELSE Stashed(r))
           /\ cur' = [cur EXCEPT !.n = @ + 1]
           /\ UNCHANGED <<pool, count, closes, pc>>
        \/ /\ r.act = "Close"
           /\ CloseAs(r, TRUE)
           /\ AfterRead
        \/ /\ r.act = "Shutdown"
           /\ Keep(r)
           /\ cur' = Idle
           /\ pc' = "shutdown"
           /\ UNCHANGED <<pool, count, closes>>
  BY <1>7
<1>9. StepOK(given, k, s, g, n, W)
  <2>1. StepOK(Consumed(r1), k, s, g, n, W)
    BY <1>4, <1>5, InputOK
  <2> QED
    BY <1>5, <1>7, <2>1
<1>10. StepOK(r, k, s, g, n, W) /\ StepOK(Stashed(r), k, s, g, n, W)
       /\ StepOK(Loose(Stashed(r)), k, s, g, n, W)
  <2>1. StepOK(r, k, s, g, n, W)
    BY <1>4, <1>8, <1>9, CallbackOK
  <2>2. StepOK(Stashed(r), k, s, g, n, W)
    BY <1>4, <2>1, InputOK
  <2> QED
    BY <1>4, <2>1, <2>2, RegisteredOK
<1>11. ASSUME Keep(IF cur.cmd THEN Loose(Stashed(r)) ELSE Stashed(r)),
              cur' = [cur EXCEPT !.n = @ + 1],
              UNCHANGED <<pool, count, closes, pc>>
       PROVE  CoreInv' /\ LoopInv'
  <2> PICK d : d = IF cur.cmd THEN Loose(Stashed(r)) ELSE Stashed(r)
    OBVIOUS
  <2>1. StepOK(d, k, s, g, n, W) /\ Keep(d)
    BY <1>10, <1>11
  <2>2. CoreInv'
    BY <1>1, <1>2, <1>11, <2>1, CoreKeep DEF Inv
  <2>3. cur.n + 1 \in 0..MaxRead
    BY <1>1, <1>2, EventLoopAssumption DEF WithinBatch
  <2>4. cur' \in Currents /\ cur'.key = cur.key
    BY <1>2, <1>11, <2>3 DEF Currents
  <2>5. LoopInv'
    BY <1>1, <1>2, <1>6, <1>11, <2>4, LoopNow, LoopNext DEF Inv
  <2> QED
    BY <2>2, <2>5
<1>12. ASSUME CloseAs(r, TRUE), AfterRead
       PROVE  CoreInv' /\ LoopInv'
  <2>1. CoreInv'
    BY <1>1, <1>2, <1>10, <1>12, CoreClose DEF Inv
  <2>2. LoopInv'
    BY <1>1, <1>6, <1>12, LoopAfter DEF Inv
  <2> QED
    BY <2>1, <2>2
<1>13. ASSUME Keep(r), cur' = Idle, pc' = "shutdown",
              UNCHANGED <<pool, count, closes>>
       PROVE  CoreInv' /\ LoopInv'
  <2>1. CoreInv'
    BY <1>1, <1>2, <1>10, <1>13, CoreKeep DEF Inv
  <2>2. LoopInv'
    BY <1>1, <1>6, <1>13, LoopNow, LoopNext, IdleOK DEF Inv, Places
  <2> QED
    BY <2>1, <2>2
<1> QED
  BY <1>1, <1>8, <1>11, <1>12, <1>13 DEF Inv

(* The reregister of process_io, and on_tick on one connection.            *)
LEMMA KeepStep ==
  ASSUME Inv, Reregister \/ \E k \in Keys : Tick(k)
  PROVE  Inv'
<1>1. queue \in Queues /\ QueueOK(queue, Len(gfds), Registering)
  BY DEF Inv, CoreInv, QueueInv
<1>2. CASE Reregister
  <2> PICK k : k = cur.key
    OBVIOUS
  <2>1. /\ pc = "rereg" /\ pc' = "events" /\ cur' = Idle
        /\ UNCHANGED <<scene, pool, count, gfds, budget, batch, waking, app, got,
                       closes>>
    BY <1>2 DEF Reregister
  <2>2. k \in Keys
    BY <2>1, LoopNow DEF Inv
  <2>3. InputIsolation'
    BY <2>1, LoopNow DEF InputIsolation, Inv
  <2>4. LoopInv'
    BY <2>1, <2>3, LoopNow, LoopNext, IdleOK DEF Inv, Places
  <2>5. CASE Live(k)
    <3>1. /\ conns[k].sock \in Socks /\ Keep(Reregistered(Now(k, queue)))
          /\ StepOK(Now(k, queue), k, conns[k].sock, conns[k].seq, Len(gfds),
                    Registering)
      BY <1>1, <1>2, <2>2, <2>5, NowOK DEF Inv, Reregister, Current
    <3>2. StepOK(Reregistered(Now(k, queue)), k, conns[k].sock, conns[k].seq,
                 Len(gfds), Registering)
      BY <3>1, RegisteredOK
    <3>3. CoreInv'
      BY <2>1, <2>2, <2>5, <3>1, <3>2, CoreKeep DEF Inv
    <3> QED
      BY <2>1, <2>4, <3>3 DEF Inv
  <2>6. CASE ~Live(k)
    <3>1. UNCHANGED <<scene, slab, sk, queue, sent, closes>>
      BY <1>2, <2>1, <2>6 DEF Reregister, slab
    <3>2. CoreInv'
      BY <3>1, CoreFrame DEF Inv
    <3> QED
      BY <2>1, <2>4, <3>2 DEF Inv
  <2> QED
    BY <2>5, <2>6
<1>3. CASE \E k \in Keys : Tick(k)
  <2>1. PICK k \in Keys : Tick(k)
    BY <1>3
  <2>2. PICK r \in Callback("on_tick", Now(k, queue)) : Keep(Loose(r))
    BY <2>1 DEF Tick
  <2>3. /\ pc = "tick" /\ Live(k)
        /\ UNCHANGED <<scene, pool, count, gfds, app, got, closes>>
        /\ UNCHANGED <<pc, budget, cur, batch, waking>>
    BY <2>1 DEF Tick, control
  <2>4. /\ conns[k].sock \in Socks
        /\ StepOK(Now(k, queue), k, conns[k].sock, conns[k].seq, Len(gfds),
                  Registering)
    BY <1>1, <2>3, NowOK DEF Inv
  <2>5. StepOK(Loose(r), k, conns[k].sock, conns[k].seq, Len(gfds), Registering)
    BY <2>2, <2>4, CallbackOK, RegisteredOK
  <2>6. CoreInv'
    BY <2>2, <2>3, <2>5, CoreKeep DEF Inv
  <2>7. InputIsolation'
    BY <2>3, LoopNow DEF InputIsolation, Inv
  <2>8. LoopInv'
    BY <2>3, <2>7, LoopNow, LoopNext DEF Inv
  <2> QED
    BY <2>3, <2>6, <2>8 DEF Inv
<1> QED
  BY <1>2, <1>3

(* The end: shutdown closes every connection, a failure leaves at once.    *)
LEMMA EndStep ==
  ASSUME Inv, (\E k \in Keys : ShutdownClose(k)) \/ ShutdownEnd \/ Fail
  PROVE  Inv'
<1>1. CASE \E k \in Keys : ShutdownClose(k)
  <2>1. PICK k \in Keys : ShutdownClose(k)
    BY <1>1
  <2>2. /\ pc = "shutdown" /\ CloseConnection(k, TRUE, queue)
        /\ UNCHANGED <<scene, gfds, app, got>>
        /\ UNCHANGED <<pc, budget, cur, batch, waking>>
    BY <2>1 DEF ShutdownClose, control
  <2>3. queue \in Queues /\ QueueOK(queue, Len(gfds), Registering)
    BY DEF Inv, CoreInv, QueueInv
  <2>4. CoreInv'
    BY <2>2, <2>3, CoreCloseConnection DEF Inv
  <2>5. InputIsolation'
    BY <2>2, LoopNow DEF InputIsolation, Inv
  <2>6. LoopInv'
    BY <2>2, <2>5, LoopNow, LoopNext DEF Inv
  <2> QED
    BY <2>2, <2>4, <2>6 DEF Inv
<1>2. ASSUME NEW how \in {"stopped", "failed"}, Stopped(how),
             how = "stopped" => \A k \in Keys : ~Live(k)
      PROVE  Inv'
  <2>1. /\ pc' = how /\ budget' = 0 /\ cur' = Idle /\ batch' = {} /\ waking' = FALSE
        /\ queue' = [urgent |-> <<>>, common |-> <<>>]
        /\ UNCHANGED <<scene, slab, sk, sent, closes>>
        /\ UNCHANGED <<conns, app, got>>
    BY <1>2 DEF Stopped, slab, history
  <2>2. queue' \in Queues /\ QueueOK(queue', Len(gfds), Registering)
    BY <2>1 DEF Queues, QueueOK
  <2>3. CoreInv'
    BY <2>1, <2>2, CoreQueue DEF Inv
  <2>4. InputIsolation'
    BY <2>1, LoopNow DEF InputIsolation, Inv
  <2>5. pc' = "stopped" => \A k \in Keys : ~Live(k)'
    BY <1>2, <2>1 DEF Live
  <2>6. 0 \in 0..MaxBatch
    BY EventLoopAssumption
  <2>7. LoopInv'
    BY <2>1, <2>4, <2>5, <2>6, LoopNow, LoopNext, IdleOK DEF Inv, Places
  <2> QED
    BY <2>1, <2>3, <2>7 DEF Inv
<1>3. CASE ShutdownEnd
  BY <1>2, <1>3 DEF ShutdownEnd
<1>4. CASE Fail
  BY <1>2, <1>4 DEF Fail
<1> QED
  BY <1>1, <1>3, <1>4

-----------------------------------------------------------------------------
(* The invariant.                                                          *)

(* The loop starts with an empty slab and empty channels.                  *)
LEMMA InitInv == Init => Inv
<1> SUFFICES ASSUME Init PROVE Inv
  OBVIOUS
<1>1. scene \in Scenes /\ MaxBatch \in Nat /\ MaxRead \in Nat /\ MaxApp \in Nat
      /\ MaxRx \in Nat
  BY EventLoopAssumption DEF Init
<1>2. \A k \in Keys : ~Live(k)
  BY DEF Init, Live
<1>3. SlabOK
  BY DEF Init, SlabOK
<1>4. sk \in [Socks -> Sockets] /\ \A s \in Socks : sk[s] = NewSocket
  BY SocketConstants DEF Init
<1>5. /\ queue \in Queues /\ QueueOK(queue, Len(gfds), Registering)
  BY DEF Init, Queues, QueueOK
<1>6. sent \in [Socks -> SUBSET Socks] /\ closes \in [Socks -> Nat] /\ OutputIsolation
  BY DEF Init, OutputIsolation
<1>7. OwnInv /\ UniqueInv
  BY <1>2, <1>4, SocketConstants DEF OwnInv, UniqueInv
<1>8. CountInv
  <2>1. LiveKeys = {}
    BY <1>2 DEF LiveKeys
  <2> QED
    BY <2>1, FS_EmptySet DEF CountInv, Init
<1>9. ClosesInv /\ SockInv
  BY <1>1, <1>4, SocketConstants DEF ClosesInv, Kept, SockInv, Init
<1>10. CoreInv
  BY <1>3, <1>4, <1>5, <1>6, <1>7, <1>8, <1>9 DEF CoreInv, SlabInv, QueueInv
<1>11. LoopInv
  <2>1. ControlOK
    <3>1. cur \in Currents /\ batch \subseteq Events
      BY IdleOK DEF Init
    <3>2. pc = "tick" /\ budget = 0 /\ waking = FALSE
      BY DEF Init
    <3>3. 0 \in 0..MaxBatch
      BY <1>1
    <3> QED
      BY <3>1, <3>2, <3>3 DEF ControlOK, Currents
  <2> QED
    BY <1>1, <2>1 DEF Init, LoopInv, CurInv, InputIsolation
<1> QED
  BY <1>1, <1>10, <1>11 DEF Inv

(* Every step keeps the invariant.                                         *)
LEMMA NextInv == Inv /\ [Next]_vars => Inv'
<1> SUFFICES ASSUME Inv, [Next]_vars PROVE Inv'
  OBVIOUS
<1>1. CASE UNCHANGED vars
  <2>1. /\ UNCHANGED <<scene, slab, sk, queue, sent, closes>>
        /\ UNCHANGED <<scene, conns, control, app, got>>
    BY <1>1 DEF vars, slab, history
  <2> QED
    BY <2>1, CoreFrame, LoopFrame DEF Inv
<1>2. CASE Environment
  BY <1>2, AcceptStep, PeerStep, AppStep DEF Environment
<1>3. CASE LoopStep
  BY <1>3, PollStep, AsyncWriteStep, CommandStep, BetweenStep, EventStep,
     WriteStep, ReadEndStep, ReadChunkStep, KeepStep, EndStep
  DEF LoopStep
<1>4. CASE Fail
  BY <1>4, EndStep
<1> QED
  BY <1>1, <1>2, <1>3, <1>4 DEF Next

(* The invariant holds throughout.                                         *)
LEMMA Invariance == Spec => []Inv
<1> QED
  BY InitInv, NextInv, PTL DEF Spec

(* Types, with the batch limits: a drain of the channels takes at most     *)
(* MaxBatch commands and a read at most MaxRead chunks (event_loop.rs 284, *)
(* 515), for any sockets, slots, handlers and limits.                      *)
THEOREM TypeCorrect == Spec => []TypeOK
<1>1. Inv => TypeOK
  BY DEF Inv, CoreInv, LoopInv, TypeOK, HistoryOK
<1> QED
  BY <1>1, Invariance, PTL

(* Whatever the order of registrations, closes, reuses of slots and of     *)
(* Connection values, and AsyncWrites with old gfds, a socket is written   *)
(* only what was meant for it (event_loop.rs 296-316, 415-424, 452-475).   *)
THEOREM OutputIsolated == Spec => []OutputIsolation
<1>1. Inv => OutputIsolation
  BY DEF Inv, CoreInv
<1> QED
  BY <1>1, Invariance, PTL

(* on_traffic of a connection sees only bytes of its own socket, though    *)
(* the Connection it is in had other users (event_loop.rs 526-546).        *)
THEOREM InputIsolated == Spec => []InputIsolation
<1>1. Inv => InputIsolation
  BY DEF Inv, LoopInv
<1> QED
  BY <1>1, Invariance, PTL

(* conn_count is the number of connections in the slab on every path, so   *)
(* it never passes below zero (event_loop.rs 435-448 and 452-475).         *)
THEOREM CountCorrect == Spec => []CountMatchesSlab
<1>1. Inv => CountMatchesSlab
  BY DEF Inv, CoreInv, SlabInv, CountInv, CountMatchesSlab, LiveKeys
<1> QED
  BY <1>1, Invariance, PTL

(* on_close is called exactly once for every connection that was kept and  *)
(* has left the slab, never for another, and for every kept one by the     *)
(* time a shutdown ends (event_loop.rs 440-457, 464 and 641-652).          *)
THEOREM ClosesOnce == Spec => []ClosedOnce
<1>1. ASSUME Inv PROVE ClosedOnce
  <2>1. OwnInv /\ UniqueInv /\ ClosesInv /\ sk \in [Socks -> Sockets]
    BY <1>1 DEF Inv, CoreInv, SlabInv
  <2>2. pc = "stopped" => \A k \in Keys : ~Live(k)
    BY <1>1, LoopNow DEF Inv
  <2> SUFFICES ASSUME NEW s \in Socks
               PROVE  closes[s] = IF Kept(s) /\ (pc = "stopped" \/ ~Admitted(s))
                                  THEN 1 ELSE 0
    BY DEF ClosedOnce
  <2>3. closes[s] = IF sk[s].st = "closed" /\ Kept(s) THEN 1 ELSE 0
    BY <2>1 DEF ClosesInv
  <2>4. CASE Admitted(s)
    <3>1. sk[s].st = "open"
      BY <2>1, <2>4 DEF OwnInv, Admitted
    <3>2. pc # "stopped"
      BY <2>2, <2>4 DEF Admitted
    <3> QED
      BY <2>3, <2>4, <3>1, <3>2
  <2>5. CASE ~Admitted(s)
    <3>1. sk[s].st # "open"
      BY <2>1, <2>5 DEF UniqueInv
    <3>2. sk[s].st \in {"new", "queued", "open", "closed"}
      BY <2>1 DEF Sockets
    <3>3. Kept(s) => sk[s].st = "closed"
      BY <2>1, <3>1, <3>2 DEF ClosesInv
    <3> QED
      BY <2>3, <2>5, <3>3
  <2> QED
    BY <2>4, <2>5
<1> QED
  BY <1>1, Invariance, PTL

-----------------------------------------------------------------------------
(* No input is stranded and no backlog forgotten.                          *)

(* A command waits in one of the channels.                                 *)
InQ(q, m) ==
  \/ \E i \in DOMAIN q.urgent : q.urgent[i] = m
  \/ \E i \in DOMAIN q.common : q.common[i] = m

ReadOf(k) == [op |-> "Read", key |-> k]

WriteOf(k) == [op |-> "Write", key |-> k]

(* The loop will still read, or write, the socket of slot k before it      *)
(* sleeps or after a queued command: the operation is under way, an event  *)
(* of the batch leads to it, or a command does.                            *)
ReadDue(k) ==
  \/ InQ(queue, ReadOf(k))
  \/ \E ev \in batch : ev.key = k /\ (ev.r \/ ev.e)
  \/ cur.key = k /\ (pc = "read" \/ (pc = "write" /\ cur.r /\ ~cur.cmd))

WriteDue(k) ==
  \/ InQ(queue, WriteOf(k))
  \/ \E ev \in batch : ev.key = k /\ (ev.w \/ ev.e)
  \/ cur.key = k /\ (pc = "write" \/ (pc \in {"read", "rereg"} /\ ~cur.cmd))

(* Unread input x, or a backlog of c, has an event due or a visit.         *)
InputDue(x, due) == x.rint /\ (x.rx > 0 \/ x.fin \/ x.err => x.edge \/ due)

OutputDue(c, x, due) ==
  c.out # {} /\ ~c.loose => (x.wint /\ (x.room => x.edge)) \/ due

Due(k) ==
  /\ InputDue(sk[conns[k].sock], ReadDue(k))
  /\ OutputDue(conns[k], sk[conns[k].sock], WriteDue(k))

Ending == {"shutdown", "stopped", "failed"}

DueInv ==
  /\ pc \notin Ending => \A k \in Keys : Live(k) => Due(k)
  /\ pc \in {"poll", "tick"} => batch = {}

(* A command added to a channel is there, with all the others.             *)
LEMMA AppendKeeps ==
  ASSUME NEW u \in Seq(Commands), NEW c \in Commands
  PROVE  /\ \E i \in DOMAIN Append(u, c) : Append(u, c)[i] = c
         /\ \A i \in DOMAIN u : i \in DOMAIN Append(u, c) /\ Append(u, c)[i] = u[i]
<1>1. /\ DOMAIN u = 1..Len(u) /\ Len(u) \in Nat
      /\ DOMAIN Append(u, c) = 1..(Len(u) + 1)
      /\ \A i \in 1..Len(u) : Append(u, c)[i] = u[i]
      /\ Append(u, c)[Len(u) + 1] = c
  BY AppendElements
<1>2. Len(u) + 1 \in 1..(Len(u) + 1) /\ 1..Len(u) \subseteq 1..(Len(u) + 1)
  BY <1>1
<1> QED
  BY <1>1, <1>2, Zenon

LEMMA PushKeeps ==
  ASSUME NEW q \in Queues, NEW c \in Commands
  PROVE  InQ(Push(q, c), c) /\ \A m : InQ(q, m) => InQ(Push(q, c), m)
<1>1. q.urgent \in Seq(Commands) /\ q.common \in Seq(Commands)
  BY DEF Queues
<1> PICK u, v : u = Append(q.urgent, c) /\ v = Append(q.common, c)
  OBVIOUS
<1>3. \/ Push(q, c) = [urgent |-> q.urgent, common |-> v]
      \/ Push(q, c) = [urgent |-> u, common |-> q.common]
  BY DEF Push, Queues
<1>4. /\ \E i \in DOMAIN u : u[i] = c
      /\ \A i \in DOMAIN q.urgent : i \in DOMAIN u /\ u[i] = q.urgent[i]
      /\ \E i \in DOMAIN v : v[i] = c
      /\ \A i \in DOMAIN q.common : i \in DOMAIN v /\ v[i] = q.common[i]
  BY <1>1, AppendKeeps
<1>5. CASE Push(q, c) = [urgent |-> q.urgent, common |-> v]
  <2>1. Push(q, c).urgent = q.urgent /\ Push(q, c).common = v
    BY <1>5
  <2> QED
    BY <1>4, <2>1, Zenon DEF InQ
<1>6. CASE Push(q, c) = [urgent |-> u, common |-> q.common]
  <2>1. Push(q, c).urgent = u /\ Push(q, c).common = q.common
    BY <1>6
  <2> QED
    BY <1>4, <2>1, Zenon DEF InQ
<1> QED
  BY <1>3, <1>5, <1>6

(* Taking the next command leaves all the others.                          *)
LEMMA RestKeeps ==
  ASSUME NEW q \in Queues, Queued(q), NEW m, InQ(q, m)
  PROVE  m = NextCommand(q) \/ InQ(Rest(q), m)
<1>1. q.urgent \in Seq(Commands) /\ q.common \in Seq(Commands)
  BY DEF Queues
<1>2. ASSUME NEW u \in Seq(Commands), u # <<>>, NEW i \in DOMAIN u
      PROVE  u[i] = Head(u) \/ \E j \in DOMAIN Tail(u) : Tail(u)[j] = u[i]
  <2>1. /\ DOMAIN u = 1..Len(u) /\ Len(u) \in Nat \ {0} /\ Head(u) = u[1]
        /\ DOMAIN Tail(u) = 1..(Len(u) - 1)
        /\ \A j \in DOMAIN Tail(u) : Tail(u)[j] = u[j + 1]
    BY <1>2, TailElements
  <2>2. CASE i = 1
    BY <2>1, <2>2
  <2>3. CASE i # 1
    <3>1. i - 1 \in 1..(Len(u) - 1) /\ (i - 1) + 1 = i
      BY <2>1, <2>3
    <3> QED
      BY <2>1, <3>1
  <2> QED
    BY <2>2, <2>3
<1>3. CASE q.urgent # <<>>
  <2> PICK t : t = Tail(q.urgent)
    OBVIOUS
  <2>1. Rest(q) = [urgent |-> t, common |-> q.common]
    BY <1>3 DEF Rest, Queues
  <2>2. Rest(q).urgent = t /\ Rest(q).common = q.common
    BY <2>1
  <2>3. NextCommand(q) = Head(q.urgent)
    BY <1>3 DEF NextCommand
  <2>4. \A i \in DOMAIN q.urgent :
          q.urgent[i] = Head(q.urgent) \/ \E j \in DOMAIN t : t[j] = q.urgent[i]
    BY <1>1, <1>2, <1>3
  <2> QED
    BY <2>2, <2>3, <2>4, Zenon DEF InQ
<1>4. CASE q.urgent = <<>>
  <2> PICK t : t = Tail(q.common)
    OBVIOUS
  <2>1. Rest(q) = [urgent |-> q.urgent, common |-> t] /\ q.common # <<>>
    BY <1>4 DEF Rest, Queues, Queued
  <2>2. Rest(q).urgent = q.urgent /\ Rest(q).common = t
    BY <2>1
  <2>3. NextCommand(q) = Head(q.common)
    BY <1>4 DEF NextCommand
  <2>4. \A i \in DOMAIN q.common :
          q.common[i] = Head(q.common) \/ \E j \in DOMAIN t : t[j] = q.common[i]
    BY <1>1, <1>2, <2>1
  <2> QED
    BY <2>2, <2>3, <2>4, Zenon DEF InQ
<1> QED
  BY <1>3, <1>4

(* A callback may write and queue a Close, but it neither changes what     *)
(* epoll watches of the socket nor takes a command away.                   *)
Mild(d, r) ==
  /\ d.x.rint = r.x.rint /\ d.x.rx = r.x.rx /\ d.x.fin = r.x.fin
  /\ d.x.err = r.x.err /\ d.x.edge = r.x.edge
  /\ \A m : InQ(r.q, m) => InQ(d.q, m)

LEMMA CallbackMild ==
  ASSUME NEW r \in Steps, NEW cb, NEW d \in Callback(cb, r)
  PROVE  Mild(d, r)
<1> PICK o : o = r.c.sock
  OBVIOUS
<1>1. r.key \in Keys /\ r.q \in Queues /\ r.c \in Connections /\ r.x \in Sockets
  BY StepFields
<1>2. CASE d = r \/ d = [r EXCEPT !.ok = FALSE] \/ d = [r EXCEPT !.sent = @ \cup {o}]
  <2>1. d.x = r.x /\ d.q = r.q
    BY <1>2 DEF Steps
  <2> QED
    BY <2>1 DEF Mild
<1>3. CASE \E a \in {"Close", "Shutdown"} : d = [r EXCEPT !.act = a]
  <2>1. d.x = r.x /\ d.q = r.q
    BY <1>3 DEF Steps
  <2> QED
    BY <2>1 DEF Mild
<1> DEFINE keep == [r EXCEPT !.c.out = @ \cup {o}]
<1>4. keep.x = r.x /\ keep.q = r.q
  BY DEF Steps
<1>5. CASE d = keep
  BY <1>4, <1>5 DEF Mild
<1>6. CASE d = [keep EXCEPT !.sent = @ \cup {o}, !.x.room = FALSE]
  <2> PICK y : y = [r.x EXCEPT !.room = FALSE]
    OBVIOUS
  <2>1. d.x = y /\ d.q = r.q
    BY <1>6 DEF Steps
  <2>2. /\ y.rint = r.x.rint /\ y.rx = r.x.rx /\ y.fin = r.x.fin
        /\ y.err = r.x.err /\ y.edge = r.x.edge
    BY <1>1 DEF Sockets
  <2> QED
    BY <2>1, <2>2 DEF Mild
<1>7. CASE d = [r EXCEPT !.q = Push(@, [op |-> "Close", key |-> r.key])]
  <2> PICK m : m = [op |-> "Close", key |-> r.key]
    OBVIOUS
  <2>1. m \in Commands
    BY <1>1, CommandFields
  <2>2. d.x = r.x /\ d.q = Push(r.q, m)
    BY <1>7 DEF Steps
  <2> QED
    BY <1>1, <2>1, <2>2, PushKeeps DEF Mild
<1>8. \/ d = r \/ d \in WriteOutcomes(r, o)
      \/ d = [r EXCEPT !.q = Push(@, [op |-> "Close", key |-> r.key])]
      \/ \E a \in {"Close", "Shutdown"} : d = [r EXCEPT !.act = a]
  BY DEF Callback
<1>9. d \in WriteOutcomes(r, o) =>
        \/ d = keep \/ d = [r EXCEPT !.ok = FALSE]
        \/ d = [r EXCEPT !.sent = @ \cup {o}]
        \/ d = [keep EXCEPT !.sent = @ \cup {o}, !.x.room = FALSE]
  BY DEF WriteOutcomes
<1> QED
  BY <1>2, <1>3, <1>5, <1>6, <1>7, <1>8, <1>9

(* After reregister whatever there is to read or to write is reported.     *)
LEMMA ReregisteredDue ==
  ASSUME NEW r \in Steps
  PROVE  /\ InputDue(Reregistered(r).x, FALSE)
         /\ OutputDue(Reregistered(r).c, Reregistered(r).x, FALSE)
         /\ Reregistered(r).q = r.q
<1>1. r.c \in Connections /\ r.x \in Sockets
  BY StepFields
<1> PICK w \in BOOLEAN : w = (r.c.out # {})
  OBVIOUS
<1> PICK y, c : y = Interest(r.x, TRUE, w) /\ c = [r.c EXCEPT !.loose = FALSE]
  OBVIOUS
<1>2. /\ y \in Sockets /\ y.rint = TRUE /\ y.wint = w
      /\ Ready(y) => y.edge
  BY <1>1, InterestOK
<1>3. Reregistered(r) = [r EXCEPT !.x = y, !.c.loose = FALSE]
  BY DEF Reregistered, EnableWrite, DisableWrite
<1>4. Reregistered(r).x = y /\ Reregistered(r).c = c /\ Reregistered(r).q = r.q
  BY <1>3 DEF Steps
<1>5. c.out = r.c.out
  BY <1>1 DEF Connections
<1>6. InputDue(y, FALSE) /\ OutputDue(c, y, FALSE)
  BY <1>2, <1>5 DEF InputDue, OutputDue, Ready, Sockets
<1> QED
  BY <1>4, <1>6

(* A backlog that is marked loose is exempt.                               *)
LEMMA LooseDue ==
  ASSUME NEW r \in Steps
  PROVE  /\ OutputDue(Loose(r).c, Loose(r).x, FALSE)
         /\ Loose(r).x = r.x /\ Loose(r).q = r.q
<1>1. r.c \in Connections
  BY StepFields
<1> PICK b \in BOOLEAN : b = (r.c.loose \/ r.c.out # {})
  BY <1>1 DEF Connections
<1> PICK c : c = [r.c EXCEPT !.loose = b]
  OBVIOUS
<1>2. Loose(r) = [r EXCEPT !.c.loose = b]
  BY DEF Loose
<1>3. Loose(r).x = r.x /\ Loose(r).c = c /\ Loose(r).q = r.q
  BY <1>2 DEF Steps
<1>4. c.out = r.c.out /\ c.loose = b
  BY <1>1 DEF Connections
<1>5. OutputDue(c, r.x, FALSE)
  BY <1>4 DEF OutputDue
<1> QED
  BY <1>3, <1>5

(* What a step on slot k leaves alone.                                     *)
Others(k) ==
  /\ scene' = scene
  /\ \A l \in Keys : l # k /\ Live(l)' =>
       Live(l) /\ conns'[l] = conns[l] /\ sk'[conns[l].sock] = sk[conns[l].sock]

QueueKept(k) ==
  \A l \in Keys : l # k =>
    /\ InQ(queue, ReadOf(l)) => InQ(queue', ReadOf(l))
    /\ InQ(queue, WriteOf(l)) => InQ(queue', WriteOf(l))

(* A step on slot k is no concern of the other slots.                      *)
LEMMA DueStep ==
  ASSUME DueInv, NEW k, Others(k), QueueKept(k), pc \notin Ending,
         \A ev \in batch : ev.key # k => ev \in batch',
         pc \in {"read", "write", "rereg"} => cur.key = k,
         k \in Keys /\ Live(k)' => Due(k)',
         pc' \in {"poll", "tick"} => batch' = {}
  PROVE  DueInv'
<1>1. Keys' = Keys
  BY DEF Others, Keys
<1>2. ASSUME NEW l \in Keys, l # k, Live(l)'
      PROVE  Due(l)'
  <2>1. /\ Live(l) /\ Due(l) /\ conns'[l] = conns[l]
        /\ sk'[conns[l].sock] = sk[conns[l].sock]
    BY <1>2 DEF Others, DueInv
  <2>2. ReadDue(l) => ReadDue(l)'
    BY <1>2 DEF ReadDue, QueueKept, ReadOf
  <2>3. WriteDue(l) => WriteDue(l)'
    BY <1>2 DEF WriteDue, QueueKept, WriteOf
  <2>4. InputDue(sk'[conns'[l].sock], ReadDue(l)')
    BY <2>1, <2>2 DEF Due, InputDue
  <2>5. OutputDue(conns'[l], sk'[conns'[l].sock], WriteDue(l)')
    BY <2>1, <2>3 DEF Due, OutputDue
  <2> QED
    BY <2>4, <2>5 DEF Due
<1>3. \A l \in Keys' : Live(l)' => Due(l)'
  BY <1>1, <1>2
<1> QED
  BY <1>3 DEF DueInv

(* A connection in the slab has a socket that no other slot uses and that  *)
(* has been registered.                                                    *)
LEMMA OwnSocket ==
  ASSUME CoreInv, NEW l \in Keys, Live(l)
  PROVE  /\ conns[l] \in Connections /\ conns[l].sock \in Socks
         /\ sk[conns[l].sock] \in Sockets /\ sk[conns[l].sock].st = "open"
         /\ \A k \in Keys : Live(k) /\ conns[k].sock = conns[l].sock => k = l
<1>1. conns[l] \in Connections
  BY DEF CoreInv, SlabOK, Live
<1>2. conns[l].sock \in Socks
  BY <1>1 DEF Connections
<1> QED
  BY <1>1, <1>2 DEF CoreInv, SlabInv, OwnInv, UniqueInv

(* Keep changes one slot.                                                  *)
LEMMA KeepOthers ==
  ASSUME CoreInv, NEW k \in Keys, Live(k), NEW r, Keep(r), UNCHANGED scene,
         r \in Steps, r.key = k, r.c.sock = conns[k].sock
  PROVE  /\ Others(k) /\ queue' = r.q
         /\ conns'[k] = r.c /\ sk'[conns'[k].sock] = r.x
<1> PICK s : s = conns[k].sock
  OBVIOUS
<1>1. /\ conns' = [conns EXCEPT ![k] = r.c] /\ sk' = [sk EXCEPT ![s] = r.x]
      /\ queue' = r.q
  BY DEF Keep
<1>2. DOMAIN conns = Keys /\ DOMAIN sk = Socks /\ s \in Socks
  BY OwnSocket DEF CoreInv, SlabOK
<1>3. conns'[k] = r.c /\ sk'[conns'[k].sock] = r.x
  BY <1>1, <1>2
<1>4. ASSUME NEW l \in Keys, l # k, Live(l)'
      PROVE  /\ Live(l) /\ conns'[l] = conns[l]
             /\ sk'[conns[l].sock] = sk[conns[l].sock]
  <2>1. conns'[l] = conns[l]
    BY <1>1, <1>2, <1>4
  <2>2. Live(l)
    BY <1>4, <2>1 DEF Live
  <2>3. conns[l].sock \in Socks /\ conns[l].sock # s
    BY <1>4, <2>2, OwnSocket
  <2> QED
    BY <1>1, <1>2, <2>1, <2>2, <2>3
<1> QED
  BY <1>1, <1>3, <1>4 DEF Others

(* close_connection frees one slot.                                        *)
LEMMA CloseOthers ==
  ASSUME CoreInv, NEW k \in Keys, Live(k), NEW r, NEW graceful,
         StepOK(r, k, conns[k].sock, conns[k].seq, Len(gfds), Registering),
         CloseAs(r, graceful), UNCHANGED scene
  PROVE  Others(k) /\ ~Live(k)' /\ \A m : InQ(r.q, m) => InQ(queue', m)
<1> PICK s, g, n, W : /\ s = conns[k].sock /\ g = conns[k].seq
                      /\ n = Len(gfds) /\ W = Registering
  OBVIOUS
<1> DEFINE e == [r EXCEPT !.c.out = {}]
<1>1. r \in Steps /\ s \in Socks /\ r.c \in Connections /\ StepOK(r, k, s, g, n, W)
  BY StepFields DEF StepOK
<1>2. StepOK(e, k, s, g, n, W) /\ e.q = r.q
  <2> DEFINE c1 == [r.c EXCEPT !.out = {}]
  <2>1. /\ c1 \in Connections /\ c1.sock = r.c.sock /\ c1.seq = r.c.seq
        /\ c1.in = r.c.in /\ c1.io = r.c.io /\ c1.out = {}
    BY <1>1 DEF Connections
  <2>2. /\ e \in Steps /\ e.c = c1 /\ e.key = r.key /\ e.x = r.x
        /\ e.q = r.q /\ e.sent = r.sent
    BY <1>1, <2>1 DEF Steps
  <2> QED
    BY <1>1, <2>1, <2>2 DEF StepOK
<1> HIDE DEF e
<1>3. PICK d \in Closing(r, graceful) :
        /\ conns' = [conns EXCEPT ![d.key] = None]
        /\ sk' = [sk EXCEPT ![d.c.sock] = Closed]
        /\ queue' = d.q
  BY DEF CloseAs
<1>4. PICK f : /\ StepOK(f, k, s, g, n, W) /\ f.q = r.q
               /\ d \in Callback("on_close", f)
  <2>1. \E f \in FlushOutcomes(r) \cup {e} : d \in Callback("on_close", f)
    BY DEF Closing, e
  <2> QED
    BY <1>1, <1>2, <2>1, FlushOK
<1>5. /\ d.key = k /\ d.c.sock = s
      /\ \A m : InQ(r.q, m) => InQ(queue', m)
  <2>1. StepOK(d, k, s, g, n, W)
    BY <1>1, <1>4, CallbackOK
  <2>2. Mild(d, f)
    BY <1>4, CallbackMild DEF StepOK
  <2> QED
    BY <1>3, <1>4, <2>1, <2>2 DEF StepOK, Mild
<1>6. /\ conns' = [conns EXCEPT ![k] = None] /\ sk' = [sk EXCEPT ![s] = Closed]
      /\ DOMAIN conns = Keys /\ DOMAIN sk = Socks
  BY <1>3, <1>5 DEF CoreInv, SlabOK
<1>7. ASSUME NEW l \in Keys, l # k, Live(l)'
      PROVE  /\ Live(l) /\ conns'[l] = conns[l]
             /\ sk'[conns[l].sock] = sk[conns[l].sock]
  <2>1. conns'[l] = conns[l]
    BY <1>6, <1>7
  <2>2. Live(l)
    BY <1>7, <2>1 DEF Live
  <2>3. conns[l].sock \in Socks /\ conns[l].sock # s
    BY <1>7, <2>2, OwnSocket
  <2> QED
    BY <1>6, <2>1, <2>2, <2>3
<1>8. ~Live(k)'
  BY <1>6 DEF Live
<1> QED
  BY <1>5, <1>7, <1>8 DEF Others

(* So does a close of a slot that may be free already.                     *)
LEMMA CloseConnectionOthers ==
  ASSUME CoreInv, NEW k \in Keys, NEW graceful, NEW q \in Queues,
         QueueOK(q, Len(gfds), Registering),
         CloseConnection(k, graceful, q), UNCHANGED scene
  PROVE  Others(k) /\ ~Live(k)' /\ \A m : InQ(q, m) => InQ(queue', m)
<1>1. CASE Live(k)
  <2>1. /\ StepOK(Now(k, q), k, conns[k].sock, conns[k].seq, Len(gfds), Registering)
        /\ Now(k, q).q = q
    BY <1>1, NowOK
  <2> QED
    BY <1>1, <2>1, CloseOthers DEF CloseConnection
<1>2. CASE ~Live(k)
  BY <1>2 DEF CloseConnection, Others, Live
<1> QED
  BY <1>1, <1>2

(* register fills one slot; the socket is watched for input from the       *)
(* start, and what has arrived before is reported.                         *)
LEMMA RegisterOthers ==
  ASSUME CoreInv, NEW s \in Socks, sk[s].st \in {"new", "queued"},
         NEW q \in Queues, QueueOK(q, Len(gfds), Registering \ {s}),
         Register(s, q)
  PROVE  /\ \A m : InQ(q, m) => InQ(queue', m)
         /\ \E k \in Keys :
              /\ Others(k)
              /\ Live(k)' => /\ InputDue(sk'[conns'[k].sock], FALSE)
                             /\ OutputDue(conns'[k], sk'[conns'[k].sock], FALSE)
<1> PICK n, W : n = Len(gfds) + 1 /\ W = Registering \ {s}
  OBVIOUS
<1>1. /\ conns \in [Keys -> Connections \cup {None}] /\ sk \in [Socks -> Sockets]
      /\ gfds \in Seq(Registrations) /\ Len(gfds) \in Nat
      /\ sk[s] \in Sockets /\ SockInv
  BY DEF CoreInv, SlabOK, SlabInv
<1> DEFINE c == IF pool = <<>> THEN Fresh(n, s) ELSE Reset(pool[Len(pool)], n, s)
           x == PollRegister(sk[s])
<1>2. PICK k \in Keys :
        /\ ~Live(k)
        /\ \E r \in Callback("on_open",
                      [key |-> k, c |-> c, x |-> x, q |-> q, sent |-> {},
                       ok |-> TRUE, act |-> "None"]) :
             IF r.act = "None"
             THEN Keep(Loose(r))
             ELSE /\ sk' = [sk EXCEPT ![s] = Closed]
                  /\ queue' = r.q
                  /\ UNCHANGED conns
  BY DEF Register
<1>3. n \in Nat /\ c = Fresh(n, s)
  BY <1>1 DEF Fresh, Reset
<1> HIDE DEF c
<1>4. /\ c \in Connections /\ c.sock = s /\ c.seq = n
      /\ c.in = {} /\ c.io = {} /\ c.out = {}
  BY <1>3 DEF Fresh, Connections
<1>5. /\ x \in Sockets /\ x.st = "open" /\ x.rx + x.left <= MaxRx
      /\ InputDue(x, FALSE)
  <2> PICK y : y = [sk[s] EXCEPT !.st = "open"]
    OBVIOUS
  <2>1. y \in Sockets /\ y.st = "open" /\ y.rx = sk[s].rx /\ y.left = sk[s].left
    BY <1>1 DEF Sockets
  <2>2. x = Interest(y, TRUE, FALSE)
    BY DEF PollRegister
  <2> HIDE DEF x
  <2>3. /\ x \in Sockets /\ x.st = "open" /\ x.rx = sk[s].rx
        /\ x.left = sk[s].left /\ x.rint = TRUE /\ (Ready(x) => x.edge)
    BY <2>1, <2>2, InterestOK
  <2> QED
    BY <1>1, <2>3 DEF InputDue, Ready, Sockets, SockInv
<1> HIDE DEF x
<1> DEFINE r0 == [key |-> k, c |-> c, x |-> x, q |-> q, sent |-> {},
                  ok |-> TRUE, act |-> "None"]
<1>6. StepOK(r0, k, s, n, n, W) /\ r0.x = x /\ r0.q = q
  <2>1. r0 \in Steps
    BY <1>4, <1>5 DEF Steps
  <2>2. QueueOK(q, n, W)
    BY <1>1, QueueWeaken
  <2> QED
    BY <1>4, <1>5, <2>1, <2>2 DEF StepOK
<1>7. PICK r \in Callback("on_open", r0) :
        IF r.act = "None"
        THEN Keep(Loose(r))
        ELSE /\ sk' = [sk EXCEPT ![s] = Closed]
             /\ queue' = r.q
             /\ UNCHANGED conns
  BY <1>2
<1> HIDE DEF r0
<1>8. StepOK(r, k, s, n, n, W) /\ StepOK(Loose(r), k, s, n, n, W)
  BY <1>6, <1>7, CallbackOK, RegisteredOK
<1>9. r \in Steps /\ Mild(r, r0)
  BY <1>6, <1>7, <1>8, CallbackMild DEF StepOK
<1>10. InputDue(r.x, FALSE)
  BY <1>5, <1>6, <1>9 DEF Mild, InputDue
<1> PICK d : d = Loose(r)
  OBVIOUS
<1>11. /\ d.key = k /\ d.c.sock = s /\ d.q = r.q /\ d.x = r.x
       /\ OutputDue(d.c, d.x, FALSE)
  BY <1>8, <1>9, LooseDue DEF StepOK
<1>12. ASSUME NEW l \in Keys, l # k, Live(l)', conns'[l] = conns[l],
              \A t \in Socks \ {s} : sk'[t] = sk[t]
       PROVE  /\ Live(l) /\ conns'[l] = conns[l]
              /\ sk'[conns[l].sock] = sk[conns[l].sock]
  <2>1. Live(l)
    BY <1>12 DEF Live
  <2>2. conns[l].sock \in Socks \ {s}
    BY <2>1, OwnSocket
  <2> QED
    BY <1>12, <2>1, <2>2
<1>13. scene' = scene
  BY DEF Register
<1>14. CASE r.act = "None"
  <2>1. /\ conns' = [conns EXCEPT ![k] = d.c] /\ sk' = [sk EXCEPT ![s] = d.x]
        /\ queue' = r.q
    BY <1>7, <1>11, <1>14 DEF Keep
  <2>2. Others(k)
    BY <1>1, <1>12, <1>13, <2>1 DEF Others
  <2>3. conns'[k] = d.c /\ sk'[conns'[k].sock] = r.x
    BY <1>1, <1>11, <2>1
  <2> QED
    BY <1>6, <1>9, <1>10, <1>11, <2>1, <2>2, <2>3 DEF Mild
<1>15. CASE r.act # "None"
  <2>1. conns' = conns /\ sk' = [sk EXCEPT ![s] = Closed] /\ queue' = r.q
    BY <1>7, <1>15
  <2>2. Others(k)
    BY <1>1, <1>12, <1>13, <2>1 DEF Others
  <2>3. ~Live(k)'
    BY <1>2, <2>1 DEF Live
  <2> QED
    BY <1>6, <1>9, <2>1, <2>2, <2>3 DEF Mild
<1> QED
  BY <1>14, <1>15

-----------------------------------------------------------------------------
(* Each step keeps what is due due.                                        *)

(* Readiness that appears in the middle of anything is reported, and       *)
(* commands only come in addition.                                         *)
LEMMA DueEnvironment ==
  ASSUME DueInv, UNCHANGED <<scene, conns, pc, cur, batch>>,
         \A m : InQ(queue, m) => InQ(queue', m),
         \A l \in Keys : Live(l) /\ Due(l) =>
           LET x == sk[conns[l].sock]
               y == sk'[conns[l].sock]
           IN /\ y.rint = x.rint /\ y.wint = x.wint /\ (x.edge => y.edge)
              /\ y.edge \/ (y.rx = x.rx /\ y.fin = x.fin /\ y.err = x.err)
              /\ y.wint /\ y.room => y.edge \/ x.room
  PROVE  DueInv'
<1>1. Keys' = Keys
  BY DEF Keys
<1>2. ASSUME NEW l \in Keys, Live(l), Due(l)
      PROVE  Due(l)'
  <2> PICK x, y : x = sk[conns[l].sock] /\ y = sk'[conns'[l].sock]
    OBVIOUS
  <2>1. /\ y.rint = x.rint /\ y.wint = x.wint /\ (x.edge => y.edge)
        /\ y.edge \/ (y.rx = x.rx /\ y.fin = x.fin /\ y.err = x.err)
        /\ y.wint /\ y.room => y.edge \/ x.room
    BY <1>2
  <2>2. ReadDue(l) => ReadDue(l)'
    BY DEF ReadDue
  <2>3. WriteDue(l) => WriteDue(l)'
    BY DEF WriteDue
  <2>4. InputDue(x, ReadDue(l)) /\ OutputDue(conns[l], x, WriteDue(l))
    BY <1>2 DEF Due
  <2>5. InputDue(y, ReadDue(l)')
    BY <2>1, <2>2, <2>4 DEF InputDue
  <2>6. OutputDue(conns'[l], y, WriteDue(l)')
    BY <2>1, <2>3, <2>4 DEF OutputDue
  <2> QED
    BY <2>5, <2>6 DEF Due
<1>3. \A l \in Keys : Live(l)' => Live(l)
  BY DEF Live
<1> QED
  BY <1>1, <1>2, <1>3 DEF DueInv

(* A change of readiness.                                                  *)
LEMMA SignalDue ==
  ASSUME Inv, DueInv, NEW s \in Socks, NEW x \in Sockets, Signal(s, x),
         x.rint = sk[s].rint, x.wint = sk[s].wint, x.edge = sk[s].edge
  PROVE  DueInv'
<1> PICK b \in BOOLEAN : b = (x.edge \/ x.rint \/ (x.err /\ x.st = "open"))
  BY DEF Sockets
<1> PICK y : y = [x EXCEPT !.edge = b]
  OBVIOUS
<1>1. y.rint = x.rint /\ y.wint = x.wint /\ y.edge = b
  BY DEF Sockets
<1>2. sk' = [sk EXCEPT ![s] = y] /\ DOMAIN sk = Socks
  BY DEF Signal, Inv, CoreInv
<1>3. UNCHANGED <<scene, conns, pc, cur, batch>> /\ UNCHANGED queue
  BY DEF Signal, slab, control
<1>4. ASSUME NEW l \in Keys, Live(l), Due(l), NEW a, NEW z,
             a = sk[conns[l].sock], z = sk'[conns[l].sock]
      PROVE  /\ z.rint = a.rint /\ z.wint = a.wint /\ (a.edge => z.edge)
             /\ z.edge \/ (z.rx = a.rx /\ z.fin = a.fin /\ z.err = a.err)
             /\ z.wint /\ z.room => z.edge \/ a.room
  <2>1. a.rint
    BY <1>4 DEF Due, InputDue
  <2>2. CASE conns[l].sock = s
    <3>1. a = sk[s] /\ z = y
      BY <1>2, <1>4, <2>2
    <3>2. b = TRUE
      BY <2>1, <3>1
    <3> QED
      BY <1>1, <3>1, <3>2
  <2>3. CASE conns[l].sock # s
    BY <1>2, <1>4, <2>3
  <2> QED
    BY <2>2, <2>3
<1> QED
  BY <1>3, <1>4, DueEnvironment

(* What peers do.                                                          *)
LEMMA PeerDue ==
  ASSUME Inv, DueInv, NEW s \in Socks,
         Arrive(s) \/ PeerCloses(s) \/ PeerResets(s) \/ PeerReads(s)
  PROVE  DueInv'
<1>1. sk[s] \in Sockets /\ DOMAIN sk = Socks /\ MaxRx \in Nat
      /\ sk[s].rx + sk[s].left <= MaxRx /\ 0 \in 0..MaxRx
  BY EventLoopAssumption DEF Inv, CoreInv, SlabInv, SockInv
<1>2. CASE Arrive(s)
  <2> PICK x : x = [sk[s] EXCEPT !.left = @ - 1, !.rx = @ + 1]
    OBVIOUS
  <2>1. Signal(s, x) /\ sk[s].left > 0
    BY <1>2 DEF Arrive
  <2>2. sk[s].left - 1 \in 0..MaxRx /\ sk[s].rx + 1 \in 0..MaxRx
    <3>1. sk[s].left \in 0..MaxRx /\ sk[s].rx \in 0..MaxRx
      BY <1>1 DEF Sockets
    <3> QED
      BY <1>1, <2>1, <3>1
  <2>3. /\ x \in Sockets /\ x.rint = sk[s].rint /\ x.wint = sk[s].wint
        /\ x.edge = sk[s].edge
    BY <1>1, <2>2 DEF Sockets
  <2> QED
    BY <2>1, <2>3, SignalDue
<1>3. CASE PeerCloses(s)
  <2> PICK x : x = [sk[s] EXCEPT !.fin = TRUE]
    OBVIOUS
  <2>1. /\ x \in Sockets /\ x.rint = sk[s].rint /\ x.wint = sk[s].wint
        /\ x.edge = sk[s].edge
    BY <1>1 DEF Sockets
  <2>2. Signal(s, x)
    BY <1>3 DEF PeerCloses
  <2> QED
    BY <2>1, <2>2, SignalDue
<1>4. CASE PeerResets(s)
  <2> PICK x : x = [sk[s] EXCEPT !.err = TRUE, !.rx = 0]
    OBVIOUS
  <2>1. /\ x \in Sockets /\ x.rint = sk[s].rint /\ x.wint = sk[s].wint
        /\ x.edge = sk[s].edge
    BY <1>1 DEF Sockets
  <2>2. Signal(s, x)
    BY <1>4 DEF PeerResets
  <2> QED
    BY <2>1, <2>2, SignalDue
<1>5. CASE PeerReads(s)
  <2> PICK b \in BOOLEAN : b = (sk[s].edge \/ sk[s].wint)
    BY <1>1 DEF Sockets
  <2> PICK y : y = [sk[s] EXCEPT !.room = TRUE, !.edge = b]
    OBVIOUS
  <2>1. /\ y.rint = sk[s].rint /\ y.wint = sk[s].wint /\ y.edge = b
        /\ y.rx = sk[s].rx /\ y.fin = sk[s].fin /\ y.err = sk[s].err
    BY <1>1 DEF Sockets
  <2>2. sk' = [sk EXCEPT ![s] = y]
    BY <1>1, <1>5 DEF PeerReads
  <2>3. UNCHANGED <<scene, conns, pc, cur, batch>> /\ UNCHANGED queue
    BY <1>5 DEF PeerReads, slab, control
  <2>4. ASSUME NEW l \in Keys, Live(l), Due(l), NEW a, NEW z,
               a = sk[conns[l].sock], z = sk'[conns[l].sock]
        PROVE  /\ z.rint = a.rint /\ z.wint = a.wint /\ (a.edge => z.edge)
               /\ z.edge \/ (z.rx = a.rx /\ z.fin = a.fin /\ z.err = a.err)
               /\ z.wint /\ z.room => z.edge \/ a.room
    <3>1. CASE conns[l].sock = s
      <4>1. a = sk[s] /\ z = y
        BY <1>1, <2>2, <2>4, <3>1
      <4> QED
        BY <2>1, <4>1
    <3>2. CASE conns[l].sock # s
      BY <1>1, <2>2, <2>4, <3>2
    <3> QED
      BY <3>1, <3>2
  <2> QED
    BY <2>3, <2>4, DueEnvironment
<1> QED
  BY <1>2, <1>3, <1>4, <1>5

(* What the acceptor and the application do.                               *)
LEMMA SenderDue ==
  ASSUME Inv, DueInv,
         (\E s \in Socks : Accept(s)) \/ (\E c \in AppCommands : AppSend(c))
  PROVE  DueInv'
<1>1. queue \in Queues /\ CoreInv /\ DOMAIN sk = Socks
  BY DEF Inv, CoreInv
<1>2. CASE \E s \in Socks : Accept(s)
  <2>1. PICK s \in Socks : Accept(s)
    BY <1>2
  <2> PICK m, v : m = [op |-> "Register", sock |-> s] /\ v = Append(queue.urgent, m)
    OBVIOUS
  <2>2. /\ sk[s].st = "new" /\ sk' = [sk EXCEPT ![s].st = "queued"]
        /\ queue' = [queue EXCEPT !.urgent = v]
        /\ UNCHANGED <<scene, conns, pc, cur, batch>>
    BY <2>1 DEF Accept, slab, control
  <2>3. /\ queue.urgent \in Seq(Commands) /\ m \in Commands
        /\ queue'.urgent = v /\ queue'.common = queue.common
    BY <1>1, <2>2, CommandFields DEF Queues
  <2>4. \A i \in DOMAIN queue.urgent : i \in DOMAIN v /\ v[i] = queue.urgent[i]
    BY <2>3, AppendKeeps
  <2>5. \A i : InQ(queue, i) => InQ(queue', i)
    BY <2>3, <2>4, Zenon DEF InQ
  <2>6. \A l \in Keys : Live(l) => sk'[conns[l].sock] = sk[conns[l].sock]
    <3> SUFFICES ASSUME NEW l \in Keys, Live(l)
                 PROVE  sk'[conns[l].sock] = sk[conns[l].sock]
      OBVIOUS
    <3>1. conns[l].sock \in Socks /\ sk[conns[l].sock].st = "open"
      BY <1>1, OwnSocket
    <3> QED
      BY <1>1, <2>2, <3>1
  <2> QED
    BY <2>2, <2>5, <2>6, DueEnvironment
<1>3. CASE \E c \in AppCommands : AppSend(c)
  <2>1. PICK c \in AppCommands : AppSend(c)
    BY <1>3
  <2>2. c \in Commands
    BY <1>1, AppCommandOK
  <2>3. /\ queue' = Push(queue, c) /\ UNCHANGED sk
        /\ UNCHANGED <<scene, conns, pc, cur, batch>>
    BY <2>1 DEF AppSend, slab, control
  <2>4. \A m : InQ(queue, m) => InQ(queue', m)
    BY <1>1, <2>2, <2>3, PushKeeps
  <2> QED
    BY <2>3, <2>4, DueEnvironment
<1> QED
  BY <1>2, <1>3

(* epoll_wait reports every edge it clears.                                *)
LEMMA PollDue ==
  ASSUME Inv, DueInv, Poll
  PROVE  DueInv'
<1>1. /\ UNCHANGED <<scene, conns, queue, cur>> /\ pc = "poll"
      /\ pc' \in {"cmd", "events"}
      /\ sk' = [s \in Socks |-> [sk[s] EXCEPT !.edge = FALSE]]
  BY DEF Poll, StartCommands, slab
<1>2. PICK bare \in BOOLEAN : batch' = {EventOf(s, bare) : s \in Reported}
  BY DEF Poll
<1>3. Keys' = Keys /\ \A l \in Keys : Live(l)' <=> Live(l)
  BY <1>1 DEF Keys, Live
<1>4. ASSUME NEW l \in Keys, Live(l)
      PROVE  Due(l)'
  <2> PICK s, x, y : s = conns[l].sock /\ x = sk[s] /\ y = sk'[s]
    OBVIOUS
  <2>1. s \in Socks /\ x \in Sockets /\ x.st = "open"
    BY <1>4, OwnSocket DEF Inv
  <2>2. /\ y.rint = x.rint /\ y.wint = x.wint /\ y.edge = FALSE
        /\ y.room = x.room
    BY <1>1, <2>1 DEF Sockets
  <2>3. KeyOf(s) = l
    <3>1. \E k \in Keys : Live(k) /\ conns[k].sock = s
      BY <1>4
    <3>2. KeyOf(s) \in Keys /\ Live(KeyOf(s)) /\ conns[KeyOf(s)].sock = s
      BY <3>1 DEF KeyOf
    <3> QED
      BY <1>4, <3>2, OwnSocket DEF Inv
  <2>4. /\ InputDue(x, ReadDue(l)) /\ OutputDue(conns[l], x, WriteDue(l))
        /\ batch = {}
    BY <1>1, <1>4 DEF DueInv, Due, Ending
  <2>5. /\ ReadDue(l) => InQ(queue, ReadOf(l))
        /\ WriteDue(l) => InQ(queue, WriteOf(l))
    BY <1>1, <2>4 DEF ReadDue, WriteDue
  <2>6. ASSUME x.edge, Ready(x)
        PROVE  EventOf(s, bare) \in batch'
    BY <1>2, <2>1, <2>6 DEF Reported
  <2> PICK ev : ev = EventOf(s, bare)
    OBVIOUS
  <2>7. /\ ev.key = l /\ ev.e = x.err
        /\ ev.r = (x.rint /\ (x.rx > 0 \/ x.fin \/ x.err) /\ ~(x.err /\ bare))
        /\ ev.w = (x.wint /\ (x.room \/ x.err) /\ ~(x.err /\ bare))
    BY <2>3 DEF EventOf
  <2>8. InputDue(y, ReadDue(l)')
    <3>1. ASSUME x.rx > 0 \/ x.fin \/ x.err
          PROVE  ReadDue(l)'
      <4>1. CASE x.edge
        <5>1. Ready(x) /\ (ev.r \/ ev.e)
          BY <2>4, <2>7, <3>1 DEF Ready, InputDue
        <5> QED
          BY <2>6, <2>7, <4>1, <5>1 DEF ReadDue
      <4>2. CASE ~x.edge
        BY <1>1, <2>4, <2>5, <3>1, <4>2 DEF InputDue, ReadDue
      <4> QED
        BY <4>1, <4>2
    <3>2. y.rx = x.rx /\ y.fin = x.fin /\ y.err = x.err
      BY <1>1, <2>1 DEF Sockets
    <3> QED
      BY <2>2, <2>4, <3>1, <3>2 DEF InputDue
  <2>9. OutputDue(conns[l], y, WriteDue(l)')
    <3>1. CASE x.wint /\ x.room /\ x.edge
      <4>1. Ready(x) /\ (ev.w \/ ev.e)
        BY <2>7, <3>1 DEF Ready
      <4>2. WriteDue(l)'
        BY <2>6, <2>7, <3>1, <4>1 DEF WriteDue
      <4> QED
        BY <4>2 DEF OutputDue
    <3>2. CASE x.wint /\ ~x.room
      BY <2>2, <3>2 DEF OutputDue
    <3>3. CASE InQ(queue, WriteOf(l))
      BY <1>1, <3>3 DEF OutputDue, WriteDue
    <3>4. CASE conns[l].out = {} \/ conns[l].loose
      BY <3>4 DEF OutputDue
    <3> QED
      BY <2>4, <2>5, <3>1, <3>2, <3>3, <3>4 DEF OutputDue
  <2> QED
    BY <1>1, <2>8, <2>9 DEF Due
<1> QED
  BY <1>1, <1>3, <1>4 DEF DueInv

(* A loop on its way out serves nobody any more.                           *)
LEMMA EndingDue ==
  ASSUME pc' \in Ending
  PROVE  DueInv'
  BY DEF DueInv, Ending

(* What is reported needs no visit.                                        *)
LEMMA DueAnyway ==
  ASSUME NEW k, InputDue(sk'[conns'[k].sock], FALSE),
         OutputDue(conns'[k], sk'[conns'[k].sock], FALSE)
  PROVE  Due(k)'
<1>1. InputDue(sk'[conns'[k].sock], ReadDue(k)')
  BY DEF InputDue
<1>2. OutputDue(conns'[k], sk'[conns'[k].sock], WriteDue(k)')
  BY DEF OutputDue
<1> QED
  BY <1>1, <1>2 DEF Due

(* Nor does a visit still due have to change anything.                     *)
LEMMA DueStill ==
  ASSUME NEW k, Due(k), conns'[k] = conns[k],
         sk'[conns[k].sock] = sk[conns[k].sock],
         ReadDue(k) => ReadDue(k)', WriteDue(k) => WriteDue(k)'
  PROVE  Due(k)'
<1>1. InputDue(sk'[conns'[k].sock], ReadDue(k)')
  BY DEF Due, InputDue
<1>2. OutputDue(conns'[k], sk'[conns'[k].sock], WriteDue(k)')
  BY DEF Due, OutputDue
<1> QED
  BY <1>1, <1>2 DEF Due

(* The commands that name a connection to read or write are apart.         *)
LEMMA DueCommands ==
  ASSUME NEW k
  PROVE  /\ ReadOf(k).op = "Read" /\ ReadOf(k).key = k
         /\ WriteOf(k).op = "Write" /\ WriteOf(k).key = k
  BY DEF ReadOf, WriteOf

(* A command taken from the channels leaves those of the other slots.      *)
LEMMA TakeKeeps ==
  ASSUME Inv, NEW op, Take(op), NEW m, InQ(queue, m)
  PROVE  m = NextCommand(queue) \/ InQ(Rest(queue), m)
  BY RestKeeps DEF Take, Inv, CoreInv

(* A write that ends with reregister or with close_connection.             *)
LEMMA WrittenOthers ==
  ASSUME CoreInv, NEW k \in Keys, Live(k), NEW r,
         StepOK(r, k, conns[k].sock, conns[k].seq, Len(gfds), Registering),
         IF r.ok THEN Keep(Reregistered(r)) /\ UNCHANGED <<pool, count, closes>>
                 ELSE CloseAs(r, FALSE),
         UNCHANGED scene
  PROVE  /\ Others(k) /\ (Live(k)' => Due(k)')
         /\ \A m : InQ(r.q, m) => InQ(queue', m)
<1>1. CASE r.ok
  <2> PICK d : d = Reregistered(r)
    OBVIOUS
  <2>1. conns[k].sock \in Socks
    BY OwnSocket
  <2>2. StepOK(d, k, conns[k].sock, conns[k].seq, Len(gfds), Registering)
    BY <2>1, RegisteredOK
  <2>3. /\ InputDue(d.x, FALSE) /\ OutputDue(d.c, d.x, FALSE) /\ d.q = r.q
    BY ReregisteredDue DEF StepOK
  <2>4. /\ Others(k) /\ queue' = d.q
        /\ conns'[k] = d.c /\ sk'[conns'[k].sock] = d.x
    BY <1>1, <2>2, KeepOthers DEF StepOK
  <2>5. Due(k)'
    BY <2>3, <2>4, DueAnyway
  <2> QED
    BY <2>3, <2>4, <2>5
<1>2. CASE ~r.ok
  BY <1>2, CloseOthers
<1> QED
  BY <1>1, <1>2

(* AsyncWrite.                                                             *)
LEMMA AsyncWriteDue ==
  ASSUME Inv, DueInv, ProcessAsyncWrite
  PROVE  DueInv'
<1> PICK g, k, q : /\ g = NextCommand(queue).seq /\ k = gfds[g].key
                   /\ q = Rest(queue)
  OBVIOUS
<1>1. /\ pc = "cmd" /\ q \in Queues /\ NextCommand(queue).op = "AsyncWrite"
      /\ QueueOK(q, Len(gfds), Registering) /\ g \in 1..Len(gfds)
  BY TakeOK DEF ProcessAsyncWrite
<1>2. UNCHANGED <<scene, pc, cur, batch>>
  BY DEF ProcessAsyncWrite
<1>3. \A l : /\ InQ(queue, ReadOf(l)) => InQ(q, ReadOf(l))
             /\ InQ(queue, WriteOf(l)) => InQ(q, WriteOf(l))
  BY <1>1, TakeKeeps, DueCommands DEF ProcessAsyncWrite
<1>4. gfds[g] \in Registrations
  <2>1. gfds \in Seq(Registrations)
    BY DEF Inv, CoreInv, SlabOK
  <2>2. /\ DOMAIN gfds = 1..Len(gfds)
        /\ \A i \in DOMAIN gfds : gfds[i] \in Registrations
    BY <2>1, SeqElements
  <2> QED
    BY <1>1, <2>2, Zenon
<1>5. k \in Keys
  BY <1>4 DEF Registrations
<1>6. CASE SameGfd(k, g)
  <2>1. Live(k) /\ conns[k].seq = g
    BY <1>6 DEF SameGfd
  <2>2. gfds[g].sock = conns[k].sock
    <3>1. gfds[conns[k].seq] = [sock |-> conns[k].sock, key |-> k, kept |-> TRUE]
      BY <1>5, <2>1 DEF Inv, CoreInv, SlabInv, OwnInv
    <3> QED
      BY <2>1, <3>1
  <2>3. PICK r \in WriteOutcomes(Now(k, q), gfds[g].sock) :
          IF r.ok
          THEN Keep(Reregistered(r)) /\ UNCHANGED <<pool, count, closes>>
          ELSE CloseAs(r, FALSE)
    BY <1>6 DEF ProcessAsyncWrite
  <2>4. /\ conns[k].sock \in Socks /\ Now(k, q).q = q
        /\ StepOK(Now(k, q), k, conns[k].sock, conns[k].seq, Len(gfds), Registering)
    BY <1>1, <1>5, <2>1, NowOK DEF Inv
  <2>5. /\ StepOK(r, k, conns[k].sock, conns[k].seq, Len(gfds), Registering)
        /\ r.q = q
    BY <2>2, <2>3, <2>4, WriteOK
  <2>6. /\ Others(k) /\ (Live(k)' => Due(k)')
        /\ \A m : InQ(q, m) => InQ(queue', m)
    BY <1>2, <1>5, <2>1, <2>3, <2>5, WrittenOthers DEF Inv
  <2>7. QueueKept(k)
    BY <1>3, <2>6 DEF QueueKept
  <2> QED
    BY <1>1, <1>2, <2>6, <2>7, DueStep DEF Ending
<1>7. CASE ~SameGfd(k, g)
  <2>1. UNCHANGED <<scene, conns, sk>> /\ queue' = q
    BY <1>2, <1>7 DEF ProcessAsyncWrite
  <2>2. Others(None) /\ QueueKept(None)
    BY <1>3, <2>1 DEF Others, QueueKept, Live
  <2>3. None \notin Keys
    BY EventLoopAssumption DEF Inv, Keys
  <2> QED
    BY <1>1, <1>2, <2>2, <2>3, DueStep DEF Ending
<1> QED
  BY <1>6, <1>7

(* Close and Register.                                                     *)
LEMMA SlabDue ==
  ASSUME Inv, DueInv,
         \/ ProcessClose \/ ProcessRegister
         \/ (\E s \in Socks : AcceptProcess(s))
         \/ (\E ev \in batch : ErrorEvent(ev))
  PROVE  DueInv'
<1>1. ASSUME NEW s \in Socks, sk[s].st \in {"new", "queued"},
             NEW q \in Queues, QueueOK(q, Len(gfds), Registering \ {s}),
             Register(s, q), pc \in {"cmd", "events"},
             \A l : /\ InQ(queue, ReadOf(l)) => InQ(q, ReadOf(l))
                    /\ InQ(queue, WriteOf(l)) => InQ(q, WriteOf(l))
      PROVE  DueInv'
  <2>1. \A m : InQ(q, m) => InQ(queue', m)
    BY <1>1, RegisterOthers DEF Inv
  <2>2. PICK k \in Keys :
          /\ Others(k)
          /\ Live(k)' => /\ InputDue(sk'[conns'[k].sock], FALSE)
                         /\ OutputDue(conns'[k], sk'[conns'[k].sock], FALSE)
    BY <1>1, RegisterOthers DEF Inv
  <2>3. QueueKept(k)
    BY <1>1, <2>1 DEF QueueKept
  <2>4. Live(k)' => Due(k)'
    BY <2>2, DueAnyway
  <2>5. UNCHANGED <<cur, batch>> /\ pc' \in {pc, "shutdown"}
    BY <1>1 DEF Register
  <2> QED
    BY <1>1, <2>2, <2>3, <2>4, <2>5, DueStep DEF Ending
<1>2. CASE ProcessClose
  <2> PICK k, q : k = NextCommand(queue).key /\ q = Rest(queue)
    OBVIOUS
  <2>1. /\ pc = "cmd" /\ q \in Queues /\ NextCommand(queue).op = "Close"
        /\ QueueOK(q, Len(gfds), Registering) /\ NextCommand(queue) \in Commands
    BY <1>2, TakeOK DEF ProcessClose
  <2>2. k \in Keys
    BY <2>1, CommandFields
  <2>3. UNCHANGED <<scene, pc, cur, batch>> /\ CloseConnection(k, TRUE, q)
    BY <1>2 DEF ProcessClose
  <2>4. \A l : /\ InQ(queue, ReadOf(l)) => InQ(q, ReadOf(l))
               /\ InQ(queue, WriteOf(l)) => InQ(q, WriteOf(l))
    BY <1>2, <2>1, TakeKeeps, DueCommands DEF ProcessClose
  <2>5. Others(k) /\ ~Live(k)' /\ \A m : InQ(q, m) => InQ(queue', m)
    BY <2>1, <2>2, <2>3, CloseConnectionOthers DEF Inv
  <2>6. QueueKept(k)
    BY <2>4, <2>5 DEF QueueKept
  <2> QED
    BY <2>1, <2>3, <2>5, <2>6, DueStep DEF Ending
<1>3. CASE ProcessRegister
  <2> PICK s, q : s = NextCommand(queue).sock /\ q = Rest(queue)
    OBVIOUS
  <2>1. /\ pc = "cmd" /\ q \in Queues /\ NextCommand(queue).op = "Register"
        /\ QueueOK(q, Len(gfds), Registering \ {s}) /\ s \in Registering
        /\ Register(s, q)
    BY <1>3, TakeOK DEF ProcessRegister
  <2>2. s \in Socks /\ sk[s].st = "queued"
    BY <2>1 DEF Registering
  <2>3. \A l : /\ InQ(queue, ReadOf(l)) => InQ(q, ReadOf(l))
               /\ InQ(queue, WriteOf(l)) => InQ(q, WriteOf(l))
    BY <1>3, <2>1, TakeKeeps, DueCommands DEF ProcessRegister
  <2> QED
    BY <1>1, <2>1, <2>2, <2>3
<1>4. CASE \E s \in Socks : AcceptProcess(s)
  <2>1. PICK s \in Socks : AcceptProcess(s)
    BY <1>4
  <2>2. pc = "events" /\ sk[s].st = "new" /\ Register(s, queue)
    BY <2>1 DEF AcceptProcess
  <2>3. Registering \ {s} = Registering
    BY <2>2 DEF Registering
  <2>4. queue \in Queues /\ QueueOK(queue, Len(gfds), Registering \ {s})
    BY <2>3 DEF Inv, CoreInv, QueueInv
  <2> QED
    BY <1>1, <2>2, <2>4
<1>5. CASE \E ev \in batch : ErrorEvent(ev)
  <2>1. PICK ev \in batch : ErrorEvent(ev)
    BY <1>5
  <2>2. /\ pc = "events" /\ batch' = batch \ {ev}
        /\ CloseConnection(ev.key, FALSE, queue) /\ UNCHANGED <<scene, pc, cur>>
    BY <2>1 DEF ErrorEvent
  <2>3. ev \in Events
    BY LoopNow DEF Inv
  <2>4. ev.key \in Keys
    BY <2>3 DEF Events
  <2>5. queue \in Queues /\ QueueOK(queue, Len(gfds), Registering)
    BY DEF Inv, CoreInv, QueueInv
  <2>6. /\ Others(ev.key) /\ ~Live(ev.key)'
        /\ \A m : InQ(queue, m) => InQ(queue', m)
    BY <2>2, <2>4, <2>5, CloseConnectionOthers DEF Inv
  <2>7. QueueKept(ev.key)
    BY <2>6 DEF QueueKept
  <2> QED
    BY <2>2, <2>6, <2>7, DueStep DEF Ending
<1> QED
  BY <1>2, <1>3, <1>4, <1>5

(* A Read or Write command, and an event, become the operation under way.  *)
LEMMA StartDue ==
  ASSUME Inv, DueInv, ProcessReadWrite \/ \E ev \in batch : ProcessIO(ev)
  PROVE  DueInv'
<1>1. CASE ProcessReadWrite
  <2> PICK m, k : m = NextCommand(queue) /\ k = m.key
    OBVIOUS
  <2>1. PICK op \in {"Read", "Write"} :
          /\ Take(op) /\ m.op = op
          /\ pc' = IF op = "Read" THEN "read" ELSE "write"
          /\ cur' = [key |-> k, r |-> FALSE, n |-> 0, cmd |-> TRUE]
    BY <1>1 DEF ProcessReadWrite, Take, Start
  <2>2. /\ UNCHANGED <<scene, conns, sk, batch>> /\ queue' = Rest(queue)
    BY <1>1 DEF ProcessReadWrite, slab
  <2>3. pc = "cmd" /\ m \in Commands
    BY <2>1, TakeOK
  <2>4. k \in Keys /\ cur'.key = k
    BY <2>1, <2>3, CommandFields
  <2>5. \A i : InQ(queue, i) => i = m \/ InQ(queue', i)
    BY <2>1, <2>2, TakeKeeps
  <2>6. Others(k) /\ QueueKept(k)
    BY <2>2, <2>5, DueCommands DEF Others, QueueKept, Live
  <2>7. ReadDue(k) => ReadDue(k)'
    <3>1. InQ(queue, ReadOf(k)) => InQ(queue', ReadOf(k)) \/ pc' = "read"
      BY <2>1, <2>5, DueCommands
    <3> QED
      BY <2>2, <2>3, <2>4, <3>1 DEF ReadDue
  <2>8. WriteDue(k) => WriteDue(k)'
    <3>1. InQ(queue, WriteOf(k)) => InQ(queue', WriteOf(k)) \/ pc' = "write"
      BY <2>1, <2>5, DueCommands
    <3> QED
      BY <2>2, <2>3, <2>4, <3>1 DEF WriteDue
  <2>9. Live(k)' => Due(k)'
    <3>1. Live(k)' => Live(k) /\ Due(k)
      BY <2>2, <2>3, <2>4 DEF Live, DueInv, Ending
    <3> QED
      BY <2>2, <2>7, <2>8, <3>1, DueStill
  <2> QED
    BY <2>1, <2>2, <2>3, <2>6, <2>9, DueStep DEF Ending
<1>2. CASE \E ev \in batch : ProcessIO(ev)
  <2>1. PICK ev \in batch : ProcessIO(ev)
    BY <1>2
  <2> PICK k : k = ev.key
    OBVIOUS
  <2>2. /\ pc = "events" /\ (ev.r \/ ev.w) /\ batch' = batch \ {ev}
        /\ pc' = (IF ev.e \/ ev.w THEN "write" ELSE "read")
        /\ cur' = [key |-> k, r |-> ev.e \/ ev.r, n |-> 0, cmd |-> FALSE]
        /\ UNCHANGED <<scene, conns, sk, queue>>
    BY <2>1 DEF ProcessIO, Start, slab
  <2>3. ev \in Events
    BY LoopNow DEF Inv
  <2>4. k \in Keys /\ cur'.key = k /\ cur'.r = (ev.e \/ ev.r) /\ cur'.cmd = FALSE
    BY <2>2, <2>3 DEF Events
  <2>5. Others(k) /\ QueueKept(k)
    BY <2>2 DEF Others, QueueKept, Live
  <2>6. ReadDue(k) => ReadDue(k)'
    BY <2>2, <2>4 DEF ReadDue
  <2>7. WriteDue(k) => WriteDue(k)'
    BY <2>2, <2>4 DEF WriteDue
  <2>8. Live(k)' => Due(k)'
    <3>1. Live(k)' => Live(k) /\ Due(k)
      BY <2>2, <2>4 DEF Live, DueInv, Ending
    <3> QED
      BY <2>2, <2>6, <2>7, <3>1, DueStill
  <2> QED
    BY <2>2, <2>5, <2>8, DueStep DEF Ending
<1> QED
  BY <1>1, <1>2

(* The steps between commands, events, the tick and the next poll.         *)
LEMMA BetweenDue ==
  ASSUME Inv, DueInv, EndCommands \/ HandleWake \/ EndEvents \/ EndTick
  PROVE  DueInv'
<1>1. /\ pc \in {"cmd", "events", "tick"}
      /\ pc' \in {"events", "cmd", "tick", "poll", "shutdown"}
      /\ UNCHANGED <<scene, conns, sk, queue, cur, batch>>
      /\ pc' \in {"poll", "tick"} => batch = {} \/ pc = "tick"
  BY DEF EndCommands, HandleWake, EndEvents, EndTick, StartCommands, slab
<1>2. pc' \in {"poll", "tick"} => batch' = {}
  BY <1>1 DEF DueInv
<1>3. Others(None) /\ QueueKept(None)
  BY <1>1 DEF Others, QueueKept, Live
<1>4. None \notin Keys
  BY EventLoopAssumption DEF Inv, Keys
<1> QED
  BY <1>1, <1>2, <1>3, <1>4, DueStep DEF Ending

(* write_socket; when it yields, a Write command is queued, and the read   *)
(* of the same event still follows.                                        *)
LEMMA WriteSocketDue ==
  ASSUME Inv, DueInv, WriteSocket
  PROVE  DueInv'
<1> PICK k, s, g, n, W : /\ k = cur.key /\ s = conns[k].sock
                         /\ g = conns[k].seq /\ n = Len(gfds)
                         /\ W = Registering
  OBVIOUS
<1>1. /\ pc = "write" /\ AfterWrite /\ UNCHANGED <<scene, batch>>
  BY DEF WriteSocket
<1>2. k \in Keys /\ cur.r \in BOOLEAN /\ cur.cmd \in BOOLEAN
  BY <1>1, LoopNow DEF Inv
<1>3. queue \in Queues /\ QueueOK(queue, n, W) /\ CoreInv
  BY DEF Inv, CoreInv, QueueInv
<1>4. pc' \notin {"poll", "tick"} /\ pc \notin Ending
  BY <1>1 DEF AfterWrite, Ending
<1>5. CASE ~Live(k)
  <2>1. UNCHANGED <<conns, sk, queue>>
    BY <1>5 DEF WriteSocket
  <2>2. Others(k) /\ QueueKept(k) /\ ~Live(k)'
    BY <1>1, <1>5, <2>1 DEF Others, QueueKept, Live
  <2> QED
    BY <1>1, <1>4, <2>2, DueStep
<1>6. CASE Live(k)
  <2> PICK r : r = Now(k, queue)
    OBVIOUS
  <2>0. r.q = queue /\ r.c = conns[k] /\ r.x = sk[s]
    BY <1>2, <1>3, <1>6, NowOK
  <2>1. s \in Socks /\ StepOK(r, k, s, g, n, W)
    BY <1>2, <1>3, <1>6, NowOK
  <2>2. ASSUME NEW d \in FlushOutcomes(r),
               IF d.ok
               THEN Keep(Reregistered(d)) /\ UNCHANGED <<pool, count, closes>>
               ELSE CloseAs(d, FALSE)
        PROVE  DueInv'
    <3>0. StepOK(d, k, s, g, n, W) /\ d.q = r.q
      BY <2>1, FlushOK
    <3>1. StepOK(d, k, s, g, n, W) /\ d.q = queue
      BY <2>0, <3>0
    <3>2. /\ Others(k) /\ (Live(k)' => Due(k)')
          /\ \A m : InQ(queue, m) => InQ(queue', m)
      BY <1>1, <1>2, <1>3, <1>6, <2>2, <3>1, WrittenOthers
    <3>3. QueueKept(k)
      BY <3>2 DEF QueueKept
    <3> QED
      BY <1>1, <1>4, <3>2, <3>3, DueStep
  <2>3. ASSUME Keep([r EXCEPT !.sent = @ \cup r.c.out,
                              !.q = Push(@, [op |-> "Write", key |-> k])])
        PROVE  DueInv'
    <3> PICK m, d : /\ m = WriteOf(k)
                    /\ d = [r EXCEPT !.sent = @ \cup r.c.out, !.q = Push(@, m)]
      OBVIOUS
    <3>1. /\ r \in Steps /\ r.q \in Queues /\ r.sent \subseteq Socks
          /\ r.c.out \subseteq Socks /\ QueueOK(r.q, n, W)
      BY <2>1, StepFields DEF StepOK
    <3>2. m \in Commands /\ m.op = "Write"
      BY <1>2, CommandFields DEF WriteOf
    <3>3. Push(r.q, m) \in Queues
      BY <3>1, <3>2, PushOK
    <3>4. /\ d \in Steps /\ d.key = r.key /\ d.c = r.c /\ d.x = r.x
          /\ d.q = Push(r.q, m)
      BY <3>1, <3>3 DEF Steps
    <3>5. Keep(d) /\ d \in Steps /\ d.key = k /\ d.c.sock = conns[k].sock
      <4>1. d = [r EXCEPT !.sent = @ \cup r.c.out,
                          !.q = Push(@, [op |-> "Write", key |-> k])]
        BY DEF WriteOf
      <4>2. Keep(d)
        BY <2>3, <4>1
      <4> QED
        BY <2>1, <3>4, <4>2 DEF StepOK
    <3>6. /\ Others(k) /\ queue' = d.q
          /\ conns'[k] = d.c /\ sk'[conns'[k].sock] = d.x
      BY <1>1, <1>2, <1>3, <1>6, <3>5, KeepOthers
    <3>7. InQ(queue', WriteOf(k)) /\ \A i : InQ(queue, i) => InQ(queue', i)
      BY <1>3, <2>0, <3>2, <3>4, <3>6, PushKeeps
    <3>8. QueueKept(k)
      BY <3>7 DEF QueueKept
    <3>9. /\ conns'[k] = conns[k] /\ sk'[conns[k].sock] = sk[conns[k].sock]
      BY <2>0, <3>4, <3>6
    <3>10. ReadDue(k) => ReadDue(k)'
      BY <1>1, <1>2, <3>7 DEF ReadDue, AfterWrite
    <3>11. WriteDue(k)'
      BY <3>7 DEF WriteDue
    <3>12. Due(k)'
      <4>1. Due(k)
        BY <1>2, <1>4, <1>6 DEF DueInv
      <4> QED
        BY <3>9, <3>10, <3>11, <4>1, DueStill
    <3> QED
      BY <1>1, <1>4, <3>6, <3>8, <3>12, DueStep
  <2>4. \/ \E d \in FlushOutcomes(r) :
             IF d.ok
             THEN Keep(Reregistered(d)) /\ UNCHANGED <<pool, count, closes>>
             ELSE CloseAs(d, FALSE)
        \/ Keep([r EXCEPT !.sent = @ \cup r.c.out,
                          !.q = Push(@, [op |-> "Write", key |-> k])])
    BY <1>6 DEF WriteSocket
  <2> QED
    BY <2>2, <2>3, <2>4
<1> QED
  BY <1>5, <1>6

(* read_socket, where it stops reading: the socket is empty, a Read        *)
(* command is queued, or the connection is gone.  The reregister that      *)
(* follows an event is still to come.                                      *)
LEMMA ReadEndDue ==
  ASSUME Inv, DueInv, ReadCompleted \/ ReadYield \/ ReadClosed
  PROVE  DueInv'
<1> PICK k : k = cur.key
  OBVIOUS
<1>1. pc = "read" /\ AfterRead /\ UNCHANGED <<scene, batch>>
  BY DEF ReadCompleted, ReadYield, ReadClosed, Reading
<1>2. k \in Keys /\ cur.cmd \in BOOLEAN
  BY <1>1, LoopNow DEF Inv
<1>3. queue \in Queues /\ QueueOK(queue, Len(gfds), Registering) /\ CoreInv
  BY DEF Inv, CoreInv, QueueInv
<1>4. pc' \notin {"poll", "tick"} /\ pc \notin Ending
  BY <1>1 DEF AfterRead, Ending
<1>5. ASSUME \A m : InQ(queue, m) => InQ(queue', m)
      PROVE  WriteDue(k) => WriteDue(k)'
  BY <1>1, <1>2, <1>5 DEF WriteDue, AfterRead
<1>6. CASE ReadCompleted
  <2>1. UNCHANGED <<conns, sk, queue>>
    BY <1>6 DEF ReadCompleted, slab
  <2>2. Others(k) /\ QueueKept(k)
    BY <1>1, <2>1 DEF Others, QueueKept, Live
  <2>3. ASSUME Live(k)' PROVE Due(k)'
    <3> PICK x : x = sk[conns[k].sock]
      OBVIOUS
    <3>1. Live(k) /\ Due(k)
      BY <1>2, <1>4, <2>1, <2>3 DEF Live, DueInv
    <3>2. x.rx = 0 /\ ~x.fin /\ ~x.err
      BY <1>6, <3>1 DEF ReadCompleted, Current, Now
    <3>3. InputDue(x, ReadDue(k)')
      BY <3>1, <3>2 DEF Due, InputDue
    <3>4. OutputDue(conns[k], x, WriteDue(k)')
      BY <1>5, <2>1, <3>1 DEF Due, OutputDue
    <3> QED
      BY <2>1, <3>3, <3>4 DEF Due
  <2> QED
    BY <1>1, <1>4, <2>2, <2>3, DueStep
<1>7. CASE ReadYield
  <2>1. UNCHANGED <<conns, sk>> /\ queue' = Push(queue, ReadOf(k))
    BY <1>7 DEF ReadYield, slab, ReadOf
  <2>2. ReadOf(k) \in Commands
    BY <1>2, CommandFields DEF ReadOf
  <2>3. InQ(queue', ReadOf(k)) /\ \A m : InQ(queue, m) => InQ(queue', m)
    BY <1>3, <2>1, <2>2, PushKeeps
  <2>4. Others(k) /\ QueueKept(k)
    BY <1>1, <2>1, <2>3 DEF Others, QueueKept, Live
  <2>5. ASSUME Live(k)' PROVE Due(k)'
    <3>1. Live(k) /\ Due(k)
      BY <1>2, <1>4, <2>1, <2>5 DEF Live, DueInv
    <3>2. ReadDue(k)'
      BY <2>3 DEF ReadDue
    <3> QED
      BY <1>5, <2>1, <2>3, <3>1, <3>2, DueStill
  <2> QED
    BY <1>1, <1>4, <2>4, <2>5, DueStep
<1>8. CASE ReadClosed
  <2>1. Live(k) /\ \E graceful \in BOOLEAN : CloseAs(Now(k, queue), graceful)
    BY <1>8 DEF ReadClosed, Reading, Current
  <2>2. /\ StepOK(Now(k, queue), k, conns[k].sock, conns[k].seq, Len(gfds), Registering)
        /\ Now(k, queue).q = queue
    BY <1>2, <1>3, <2>1, NowOK
  <2>3. Others(k) /\ ~Live(k)' /\ \A m : InQ(queue, m) => InQ(queue', m)
    BY <1>1, <1>2, <1>3, <2>1, <2>2, CloseOthers
  <2>4. QueueKept(k)
    BY <2>3 DEF QueueKept
  <2> QED
    BY <1>1, <1>4, <2>3, <2>4, DueStep
<1> QED
  BY <1>6, <1>7, <1>8

(* A chunk changes nothing of what epoll watches.                          *)
LEMMA InputMild ==
  ASSUME NEW r \in Steps, r.x.rx > 0
  PROVE  /\ Receive(r).x.rint = r.x.rint /\ Receive(r).q = r.q
         /\ Consumed(r).x = r.x /\ Consumed(r).q = r.q
         /\ Stashed(r).x = r.x /\ Stashed(r).q = r.q
<1>1. r.x \in Sockets
  BY StepFields
<1> PICK y : y = [r.x EXCEPT !.rx = @ - 1]
  OBVIOUS
<1>2. y.rint = r.x.rint
  BY <1>1 DEF Sockets
<1>3. Receive(r).x = y /\ Receive(r).q = r.q
  BY DEF Receive, Steps
<1>4. /\ Consumed(r).x = r.x /\ Consumed(r).q = r.q
      /\ Stashed(r).x = r.x /\ Stashed(r).q = r.q
  BY DEF Consumed, Stashed, Steps
<1> QED
  BY <1>2, <1>3, <1>4

(* process_read: the loop goes on reading; output that on_traffic leaves   *)
(* is written by the reregister to come, or loose in a Read command.       *)
LEMMA ReadChunkDue ==
  ASSUME Inv, DueInv, ReadChunk
  PROVE  DueInv'
<1> PICK k, s, g, n, W : /\ k = cur.key /\ s = conns[k].sock
                         /\ g = conns[k].seq /\ n = Len(gfds)
                         /\ W = Registering
  OBVIOUS
<1> PICK r0, r1 : r0 = Current /\ r1 = Received
  OBVIOUS
<1>1. /\ pc = "read" /\ Live(k) /\ r0.x.rx > 0 /\ UNCHANGED <<scene, batch>>
  BY DEF ReadChunk, Reading
<1>2. k \in Keys /\ cur \in Currents /\ cur.cmd \in BOOLEAN
  BY <1>1, LoopNow DEF Inv
<1>3. queue \in Queues /\ QueueOK(queue, n, W) /\ CoreInv
  BY DEF Inv, CoreInv, QueueInv
<1>4. /\ s \in Socks /\ StepOK(r0, k, s, g, n, W) /\ r0.q = queue /\ r0.x = sk[s]
  BY <1>1, <1>2, <1>3, NowOK DEF Current
<1>5. /\ StepOK(r1, k, s, g, n, W) /\ r1.q = queue /\ r1.x.rint = sk[s].rint
  <2>1. r1 = Receive(r0)
    BY DEF Received, Receive
  <2>2. r0.x.rx > 0 => StepOK(Receive(r0), k, s, g, n, W)
    BY <1>4, InputOK
  <2>3. Receive(r0).x.rint = r0.x.rint /\ Receive(r0).q = r0.q
    BY <1>1, <1>4, InputMild DEF StepOK
  <2> QED
    BY <1>1, <1>4, <2>1, <2>2, <2>3
<1>6. PICK given \in {r1, Consumed(r1)} :
        \E r \in Callback("on_traffic", given) :
          \/ /\ Keep(IF cur.cmd THEN Loose(Stashed(r)) ELSE Stashed(r))
             /\ cur' = [cur EXCEPT !.n = @ + 1]
             /\ UNCHANGED pc
          \/ CloseAs(r, TRUE) /\ AfterRead
          \/ pc' = "shutdown"
  BY DEF ReadChunk
<1>7. PICK r \in Callback("on_traffic", given) :
        \/ /\ Keep(IF cur.cmd THEN Loose(Stashed(r)) ELSE Stashed(r))
           /\ cur' = [cur EXCEPT !.n = @ + 1]
           /\ UNCHANGED pc
        \/ CloseAs(r, TRUE) /\ AfterRead
        \/ pc' = "shutdown"
  BY <1>6
<1>8. /\ StepOK(given, k, s, g, n, W) /\ given.q = queue
      /\ given.x.rint = sk[s].rint
  <2>1. StepOK(Consumed(r1), k, s, g, n, W)
    BY <1>4, <1>5, InputOK
  <2>2. Consumed(r1).x = r1.x /\ Consumed(r1).q = r1.q
    BY <1>5 DEF StepOK, Consumed, Steps
  <2> QED
    BY <1>5, <1>6, <2>1, <2>2
<1> PICK t, d : t = Stashed(r) /\ d = IF cur.cmd THEN Loose(t) ELSE t
  OBVIOUS
<1>9. /\ StepOK(r, k, s, g, n, W) /\ StepOK(t, k, s, g, n, W)
      /\ StepOK(Loose(t), k, s, g, n, W)
  <2>1. StepOK(r, k, s, g, n, W)
    BY <1>4, <1>7, <1>8, CallbackOK
  <2>2. StepOK(t, k, s, g, n, W)
    BY <1>4, <2>1, InputOK
  <2> QED
    BY <1>4, <2>1, <2>2, RegisteredOK
<1>10. r.x.rint = sk[s].rint /\ \A m : InQ(queue, m) => InQ(r.q, m)
  <2>1. Mild(r, given)
    BY <1>7, <1>8, CallbackMild DEF StepOK
  <2> QED
    BY <1>8, <2>1 DEF Mild
<1>11. pc \notin Ending
  BY <1>1 DEF Ending
<1>12. ASSUME Keep(d), cur' = [cur EXCEPT !.n = @ + 1], UNCHANGED pc
       PROVE  DueInv'
  <2>1. t.x = r.x /\ t.q = r.q /\ r \in Steps /\ t \in Steps
    BY <1>9 DEF StepOK, Stashed, Steps
  <2>2. /\ OutputDue(Loose(t).c, Loose(t).x, FALSE)
        /\ Loose(t).x = t.x /\ Loose(t).q = t.q
    BY <2>1, LooseDue
  <2>3. /\ StepOK(d, k, s, g, n, W) /\ d.x = r.x /\ d.q = r.q
        /\ cur.cmd => OutputDue(d.c, d.x, FALSE)
    BY <1>9, <2>1, <2>2
  <2>4. /\ Others(k) /\ queue' = d.q
        /\ conns'[k] = d.c /\ sk'[conns'[k].sock] = d.x
    BY <1>1, <1>2, <1>3, <1>12, <2>3, KeepOthers DEF StepOK
  <2>5. QueueKept(k)
    BY <1>10, <2>3, <2>4 DEF QueueKept
  <2>6. cur'.key = k /\ cur'.cmd = cur.cmd
    BY <1>2, <1>12 DEF Currents
  <2>7. ReadDue(k)' /\ (~cur.cmd => WriteDue(k)')
    BY <1>1, <1>12, <2>6 DEF ReadDue, WriteDue
  <2>8. sk[s].rint
    BY <1>1, <1>2, <1>11 DEF DueInv, Due, InputDue
  <2>9. InputDue(d.x, ReadDue(k)')
    BY <1>10, <2>3, <2>7, <2>8 DEF InputDue
  <2>10. OutputDue(d.c, d.x, WriteDue(k)')
    BY <1>2, <2>3, <2>7 DEF OutputDue
  <2>11. Due(k)'
    BY <2>4, <2>9, <2>10 DEF Due
  <2> QED
    BY <1>1, <1>11, <1>12, <2>4, <2>5, <2>11, DueStep
<1>13. ASSUME CloseAs(r, TRUE), AfterRead
       PROVE  DueInv'
  <2>1. Others(k) /\ ~Live(k)' /\ \A m : InQ(r.q, m) => InQ(queue', m)
    BY <1>1, <1>2, <1>3, <1>9, <1>13, CloseOthers
  <2>2. QueueKept(k)
    BY <1>10, <2>1 DEF QueueKept
  <2>3. pc' \notin {"poll", "tick"}
    BY <1>1, <1>13 DEF AfterRead
  <2> QED
    BY <1>1, <1>11, <2>1, <2>2, <2>3, DueStep
<1>14. ASSUME pc' = "shutdown"
       PROVE  DueInv'
  BY <1>14, EndingDue DEF Ending
<1> QED
  BY <1>7, <1>12, <1>13, <1>14

(* The reregister of process_io, and on_tick on one connection.            *)
LEMMA KeepDue ==
  ASSUME Inv, DueInv, Reregister \/ \E k \in Keys : Tick(k)
  PROVE  DueInv'
<1>1. queue \in Queues /\ QueueOK(queue, Len(gfds), Registering) /\ CoreInv
  BY DEF Inv, CoreInv, QueueInv
<1>2. CASE Reregister
  <2> PICK k : k = cur.key
    OBVIOUS
  <2>1. pc = "rereg" /\ pc' = "events" /\ UNCHANGED <<scene, batch>>
    BY <1>2 DEF Reregister
  <2>2. k \in Keys
    BY <2>1, LoopNow DEF Inv
  <2>3. CASE Live(k)
    <3> PICK r, d : r = Now(k, queue) /\ d = Reregistered(r)
      OBVIOUS
    <3>1. /\ conns[k].sock \in Socks /\ Keep(d) /\ r.q = queue
          /\ StepOK(r, k, conns[k].sock, conns[k].seq, Len(gfds), Registering)
      BY <1>1, <1>2, <2>2, <2>3, NowOK DEF Reregister, Current
    <3>2. StepOK(d, k, conns[k].sock, conns[k].seq, Len(gfds), Registering)
      BY <3>1, RegisteredOK
    <3>3. InputDue(d.x, FALSE) /\ OutputDue(d.c, d.x, FALSE) /\ d.q = queue
      BY <3>1, ReregisteredDue DEF StepOK
    <3>4. /\ Others(k) /\ queue' = d.q
          /\ conns'[k] = d.c /\ sk'[conns'[k].sock] = d.x
      BY <1>1, <2>1, <2>2, <2>3, <3>1, <3>2, KeepOthers DEF StepOK
    <3>5. Due(k)' /\ QueueKept(k)
      BY <3>3, <3>4, DueAnyway DEF QueueKept
    <3> QED
      BY <2>1, <3>4, <3>5, DueStep DEF Ending
  <2>4. CASE ~Live(k)
    <3>1. UNCHANGED <<conns, sk, queue>>
      BY <1>2, <2>4 DEF Reregister
    <3>2. Others(k) /\ QueueKept(k) /\ ~Live(k)'
      BY <2>1, <2>4, <3>1 DEF Others, QueueKept, Live
    <3> QED
      BY <2>1, <3>2, DueStep DEF Ending
  <2> QED
    BY <2>3, <2>4
<1>3. CASE \E k \in Keys : Tick(k)
  <2>1. PICK k \in Keys : Tick(k)
    BY <1>3
  <2> PICK r0 : r0 = Now(k, queue)
    OBVIOUS
  <2>2. PICK r \in Callback("on_tick", r0) : Keep(Loose(r))
    BY <2>1 DEF Tick
  <2> PICK d : d = Loose(r)
    OBVIOUS
  <2>3. /\ pc = "tick" /\ Live(k) /\ UNCHANGED <<scene, pc, cur, batch>>
    BY <2>1 DEF Tick, control
  <2>4. /\ conns[k].sock \in Socks /\ r0.q = queue /\ r0.x = sk[conns[k].sock]
        /\ StepOK(r0, k, conns[k].sock, conns[k].seq, Len(gfds), Registering)
    BY <1>1, <2>3, NowOK
  <2>5. /\ StepOK(r, k, conns[k].sock, conns[k].seq, Len(gfds), Registering)
        /\ StepOK(d, k, conns[k].sock, conns[k].seq, Len(gfds), Registering)
    BY <2>2, <2>4, CallbackOK, RegisteredOK
  <2>6. Mild(r, r0)
    BY <2>2, <2>4, CallbackMild DEF StepOK
  <2>7. OutputDue(d.c, d.x, FALSE) /\ d.x = r.x /\ d.q = r.q
    BY <2>5, LooseDue DEF StepOK
  <2>8. /\ Others(k) /\ queue' = d.q
        /\ conns'[k] = d.c /\ sk'[conns'[k].sock] = d.x
    BY <1>1, <2>2, <2>3, <2>5, KeepOthers DEF StepOK
  <2>9. \A m : InQ(queue, m) => InQ(queue', m)
    BY <2>4, <2>6, <2>7, <2>8 DEF Mild
  <2>10. ReadDue(k) => ReadDue(k)'
    BY <2>3, <2>9 DEF ReadDue
  <2>11. Due(k) /\ batch = {}
    BY <2>3 DEF DueInv, Ending
  <2>12. InputDue(d.x, ReadDue(k)')
    BY <2>4, <2>6, <2>7, <2>10, <2>11 DEF Due, Mild, InputDue
  <2>13. OutputDue(d.c, d.x, WriteDue(k)')
    BY <2>7 DEF OutputDue
  <2>14. Due(k)' /\ QueueKept(k)
    BY <2>8, <2>9, <2>12, <2>13 DEF Due, QueueKept
  <2> QED
    BY <2>3, <2>8, <2>11, <2>14, DueStep DEF Ending
<1> QED
  BY <1>2, <1>3

(* The loop starts without connections.                                    *)
LEMMA InitDue == Init => DueInv
  BY DEF Init, DueInv, Live

(* Every step keeps what is due due.                                       *)
LEMMA NextDue == Inv /\ DueInv /\ [Next]_vars => DueInv'
<1> SUFFICES ASSUME Inv, DueInv, [Next]_vars PROVE DueInv'
  OBVIOUS
<1>1. CASE UNCHANGED vars
  <2>1. UNCHANGED <<scene, conns, pc, cur, batch>> /\ UNCHANGED <<sk, queue>>
    BY <1>1 DEF vars, slab, control
  <2> QED
    BY <2>1, DueEnvironment
<1>2. CASE Environment
  BY <1>2, PeerDue, SenderDue DEF Environment
<1>3. ASSUME \/ ProcessShutdown \/ ShutdownEnd \/ Fail
             \/ \E k \in Keys : ShutdownClose(k)
      PROVE  DueInv'
  <2>1. pc' \in Ending
    BY <1>3 DEF ProcessShutdown, ShutdownEnd, Fail, ShutdownClose, Stopped,
                control, Ending
  <2> QED
    BY <2>1, EndingDue
<1>4. CASE LoopStep
  BY <1>3, <1>4, PollDue, AsyncWriteDue, SlabDue, StartDue, BetweenDue,
     WriteSocketDue, ReadEndDue, ReadChunkDue, KeepDue
  DEF LoopStep
<1> QED
  BY <1>1, <1>2, <1>3, <1>4 DEF Next

(* At all times, whatever is unread or unsent of a connection has an event *)
(* due, a command queued, or a visit before the loop sleeps.               *)
LEMMA DueThroughout == Spec => [](Inv /\ DueInv)
<1>1. Init => Inv /\ DueInv
  BY InitInv, InitDue
<1>2. (Inv /\ DueInv) /\ [Next]_vars => (Inv /\ DueInv)'
  BY NextInv, NextDue
<1> QED
  BY <1>1, <1>2, PTL DEF Spec

(* The two ways to say that a command is queued.                           *)
LEMMA QueuedCommand == \A m : InQ(queue, m) => InQueue(m)
  BY DEF InQ, InQueue

(* With edge-triggered events, any batch limits and any interleaving of    *)
(* peers with the loop, the loop never goes to sleep on unread input it    *)
(* will not be told of again (event_loop.rs 373-393, 478-498, 514-517).    *)
THEOREM InputNotStranded == Spec => []NoStrandedInput
<1>1. ASSUME Inv, DueInv PROVE NoStrandedInput
  <2> SUFFICES ASSUME pc = "poll", NEW k \in Keys, Live(k), NEW x,
                      x = sk[conns[k].sock], x.rx > 0 \/ x.fin \/ x.err
               PROVE  x.edge \/ InQueue(ReadOf(k))
    BY DEF NoStrandedInput, Waiting, ReadOf
  <2>1. InputDue(x, ReadDue(k)) /\ batch = {}
    BY <1>1 DEF DueInv, Due, Ending
  <2>2. ReadDue(k) => InQ(queue, ReadOf(k))
    BY <2>1 DEF ReadDue
  <2> QED
    BY <2>1, <2>2, QueuedCommand DEF InputDue
<1> QED
  BY <1>1, DueThroughout, PTL

(* Nor on a backlog that has neither write interest with its event due nor *)
(* a Write command queued, except where the code does not reregister       *)
(* (event_loop.rs 172-183, 315, 390, 561-566).                             *)
THEOREM OutputStaysArmed == Spec => []OutputArmed
<1>1. ASSUME Inv, DueInv PROVE OutputArmed
  <2> SUFFICES ASSUME pc = "poll", NEW k \in Keys, Live(k), NEW x,
                      x = sk[conns[k].sock], conns[k].out # {}, ~conns[k].loose
               PROVE  (x.wint /\ (x.room => x.edge)) \/ InQueue(WriteOf(k))
    BY DEF OutputArmed, Waiting, WriteOf
  <2>1. OutputDue(conns[k], x, WriteDue(k)) /\ batch = {}
    BY <1>1 DEF DueInv, Due, Ending
  <2>2. WriteDue(k) => InQ(queue, WriteOf(k))
    BY <2>1 DEF WriteDue
  <2> QED
    BY <2>1, <2>2, QueuedCommand DEF OutputDue
<1> QED
  BY <1>1, DueThroughout, PTL
=============================================================================
