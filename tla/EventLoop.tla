------------------------------ MODULE EventLoop ------------------------------
(***************************************************************************)
(* One event loop and its connections: the slab, the pool of recycled      *)
(* Connection values, the gfd that tells two users of a slot apart, the    *)
(* edge-triggered epoll interest of every socket, the commands that name a *)
(* connection, and the order in which one iteration of run_loop handles    *)
(* commands, events and the tick.                                          *)
(*                                                                         *)
(* The loop is one thread; its environment (peers, the kernel, the         *)
(* acceptor, application threads) moves between any two of its steps.      *)
(* Bytes are represented by their owner, the socket they came from or are  *)
(* meant for, and a buffer by the set of owners that have bytes in it:     *)
(* what is kept in which order is the subject of InboundBuffer.tla and     *)
(* OutboundBuffer.tla, and how a queued command wakes the loop that of     *)
(* CommandQueue.tla.                                                       *)
(***************************************************************************)
EXTENDS Naturals, FiniteSets, Sequences

CONSTANTS
  Socks,      \* the sockets the listeners accept, each at most once
  None,       \* no connection, no key
  Scenes,     \* the options, and what handler and environment may do
  MaxUrgent,  \* MAX_POLL_EVENT_CAP
  MaxBatch,   \* MAX_ASYNC_TASK_ONE_TIME
  MaxRead,    \* max_batch_size in chunks of read_buffer_cap
  MaxRx,      \* bound of the model: chunks a peer sends
  MaxApp      \* bound of the model: commands the application sends

CallbackNames == {"on_open", "on_traffic", "on_close", "on_tick"}

(* write and close are calls on the connection, Close and Shutdown are     *)
(* values of Action that the callback returns.                             *)
CallbackOps == {"write", "close", "Close", "Shutdown"}

ASSUME EventLoopAssumption ==
  /\ \A s \in Scenes :
       /\ None \notin s.keys
       /\ s.callbacks \in [CallbackNames -> SUBSET CallbackOps]
       /\ s.app_ops \subseteq {"AsyncWrite", "Close", "Shutdown"}
       /\ s.peer \subseteq {"sends", "closes", "resets", "blocks",
                            "interrupts"}
       /\ s.reuse_port \in BOOLEAN
       /\ s.max_queue \in Nat
  /\ MaxUrgent \in Nat
  /\ MaxBatch \in Nat \ {0}
  /\ MaxRead \in Nat \ {0}
  /\ MaxRx \in Nat
  /\ MaxApp \in Nat

VARIABLES
  scene,   \* the one this loop runs in
  conns,   \* connections: the slab
  pool,    \* connection_pool: what the recycled Connections still hold
  count,   \* handle.conn_count
  gfds,    \* history: the Gfd of every registration, in MONO_SEQ order, and
           \* whether the connection was kept after on_open
  sk,      \* sk[s]: the kernel's view of socket s
  queue,   \* the urgent and the common channel
  pc,      \* where the loop is
  budget,  \* commands the current process_command call may still take
  cur,     \* the socket operation under way
  batch,   \* events of this poll not handled yet
  waking,  \* WAKE_TOKEN is among them
  app,     \* commands the application has sent
  sent,    \* history: sent[s], owners of the bytes written to socket s
  got,     \* history: got[s], owners of the bytes on_traffic of s could see
  closes   \* history: closes[s], calls of on_close for s

slab == <<conns, pool, count, gfds>>
control == <<pc, budget, cur, batch, waking>>
history == <<sent, got, closes>>
vars == <<scene, slab, sk, queue, control, app, history>>

Keys == scene.keys             \* the slots of the slab
Callbacks == scene.callbacks   \* what the handler may do in each callback
AppOps == scene.app_ops        \* the commands application threads send
Peer == scene.peer             \* what peers and the kernel may do
ReusePort == scene.reuse_port  \* the loop accepts, not the acceptor
MaxQueue == scene.max_queue    \* bound of the model: commands queued before
                               \* the loop adds another Close or Write

(* A Connection; loose is a ghost: output was left behind by a path that   *)
(* does not reregister.                                                    *)
Connections ==
  [seq : Nat, sock : Socks, in : SUBSET Socks, io : SUBSET Socks,
   out : SUBSET Socks, loose : BOOLEAN]

ASSUME NoneAssumption == None \notin Connections

Residues == [in : SUBSET Socks, io : SUBSET Socks, out : SUBSET Socks]

Sockets ==
  [st : {"new", "queued", "open", "closed"}, left : 0..MaxRx, rx : 0..MaxRx,
   fin : BOOLEAN, err : BOOLEAN, room : BOOLEAN, rint : BOOLEAN,
   wint : BOOLEAN, edge : BOOLEAN]

KeyCommands == [op : {"Close", "Read", "Write"}, key : Keys]

Commands ==
  KeyCommands
    \cup [op : {"AsyncWrite"}, seq : Nat \ {0}]
    \cup [op : {"Register"}, sock : Socks]
    \cup [op : {"Shutdown"}]

Events == [key : Keys, r : BOOLEAN, w : BOOLEAN, e : BOOLEAN]

Idle == [key |-> None, r |-> FALSE, n |-> 0, cmd |-> FALSE]

Registrations == [sock : Socks, key : Keys, kept : BOOLEAN]

Queues == [urgent : Seq(Commands), common : Seq(Commands)]

(* Types; the counters of cur and budget show that a read and a drain of   *)
(* the channels stay within their batch limits (event_loop.rs 284, 515).   *)
SlabOK ==
  /\ conns \in [Keys -> Connections \cup {None}]
  /\ pool \in Seq(Residues)
  /\ count \in Nat
  /\ gfds \in Seq(Registrations)

ControlOK ==
  /\ pc \in {"poll", "cmd", "events", "write", "read", "rereg", "tick",
            "shutdown", "stopped", "failed"}
  /\ budget \in 0..MaxBatch
  /\ cur \in [key : Keys \cup {None}, r : BOOLEAN, n : 0..MaxRead,
              cmd : BOOLEAN]
  /\ batch \subseteq Events
  /\ waking \in BOOLEAN

HistoryOK ==
  /\ sent \in [Socks -> SUBSET Socks]
  /\ got \in [Socks -> SUBSET Socks]
  /\ closes \in [Socks -> Nat]

TypeOK ==
  /\ scene \in Scenes
  /\ SlabOK /\ ControlOK /\ HistoryOK
  /\ sk \in [Socks -> Sockets]
  /\ queue \in Queues
  /\ app \in 0..MaxApp

Live(k) == conns[k] # None

NewSocket ==
  [st |-> "new", left |-> MaxRx, rx |-> 0, fin |-> FALSE, err |-> FALSE,
   room |-> TRUE, rint |-> FALSE, wint |-> FALSE, edge |-> FALSE]

Closed == [NewSocket EXCEPT !.st = "closed", !.left = 0]

Init ==
  /\ scene \in Scenes
  /\ conns = [k \in Keys |-> None]
  /\ pool = <<>>
  /\ count = 0
  /\ gfds = <<>>
  /\ sk = [s \in Socks |-> NewSocket]
  /\ queue = [urgent |-> <<>>, common |-> <<>>]
  /\ pc = "tick"  \* with a ticker, on_tick runs once before the loop
  /\ budget = 0
  /\ cur = Idle
  /\ batch = {}
  /\ waking = FALSE
  /\ app = 0
  /\ sent = [s \in Socks |-> {}]
  /\ got = [s \in Socks |-> {}]
  /\ closes = [s \in Socks |-> 0]

-----------------------------------------------------------------------------
(* EventLoopHandle::trigger, and the channels as the loop drains them.     *)

Priority(op) == IF op \in {"Register", "Close"} THEN "Low" ELSE "High"

Push(q, c) ==
  IF Priority(c.op) = "Low" /\ Len(q.urgent) >= MaxUrgent
  THEN [q EXCEPT !.common = Append(@, c)]
  ELSE [q EXCEPT !.urgent = Append(@, c)]

Full(q) == Len(q.urgent) + Len(q.common) >= MaxQueue

Queued(q) == q.urgent # <<>> \/ q.common # <<>>

NextCommand(q) == IF q.urgent # <<>> THEN Head(q.urgent) ELSE Head(q.common)

Rest(q) ==
  IF q.urgent # <<>> THEN [q EXCEPT !.urgent = Tail(@)]
                     ELSE [q EXCEPT !.common = Tail(@)]

InQueue(c) ==
  \E q \in {queue.urgent, queue.common} : \E i \in DOMAIN q : q[i] = c

-----------------------------------------------------------------------------
(* Sockets, as the kernel and mio present them.                            *)

Ready(x) ==
  x.err \/ (x.rint /\ (x.rx > 0 \/ x.fin)) \/ (x.wint /\ x.room)

(* EPOLL_CTL_ADD and EPOLL_CTL_MOD look at the readiness anew.             *)
Interest(x, read, write) ==
  LET y == [x EXCEPT !.rint = read, !.wint = write]
  IN [y EXCEPT !.edge = y.edge \/ Ready(y)]

(* Poller::register, enable_write and disable_write.                       *)
PollRegister(x) == Interest([x EXCEPT !.st = "open"], TRUE, FALSE)

(* Variant with a fault: enable_write asks for WRITABLE alone.             *)
EnableWriteOnly(x) == Interest(x, FALSE, TRUE)

EnableWrite(x) == Interest(x, TRUE, TRUE)

DisableWrite(x) == Interest(x, TRUE, FALSE)

(* Connection::write of bytes for owner o, and its other forms: append to  *)
(* a backlog, else try the socket, which takes all of it, a part, or       *)
(* nothing, and keep the rest.                                             *)
WriteOutcomes(r, o) ==
  LET keep == [r EXCEPT !.c.out = @ \cup {o}]
  IN IF r.c.out # {} THEN {keep}
     ELSE IF r.x.err THEN {[r EXCEPT !.ok = FALSE]}
     ELSE IF ~r.x.room THEN {keep}
     ELSE {[r EXCEPT !.sent = @ \cup {o}]}
            \cup {[keep EXCEPT !.sent = @ \cup {o}, !.x.room = FALSE] :
                   p \in Peer \cap {"blocks"}}
            \cup {keep : p \in Peer \cap {"interrupts"}}

(* The loop over out_buffer in process_write and in flush, until it is     *)
(* empty, the socket would block or fails.                                 *)
FlushOutcomes(r) ==
  IF r.c.out = {} THEN {r}
  ELSE IF r.x.err THEN {[r EXCEPT !.ok = FALSE]}
  ELSE IF ~r.x.room THEN {r}
  ELSE {[r EXCEPT !.sent = @ \cup r.c.out, !.c.out = {}]}
         \cup {[r EXCEPT !.sent = @ \cup r.c.out, !.x.room = FALSE] :
                p \in Peer \cap {"blocks"}}

(* A connection, its socket and the channels in the middle of a step.      *)
Now(k, q) ==
  [key |-> k, c |-> conns[k], x |-> sk[conns[k].sock], q |-> q, sent |-> {},
   ok |-> TRUE, act |-> "None"]

(* A callback on a connection does one thing or nothing.                   *)
Callback(cb, r) ==
  {r}
    \cup (IF "write" \in Callbacks[cb] THEN WriteOutcomes(r, r.c.sock) ELSE {})
    \cup (IF "close" \in Callbacks[cb] /\ ~Full(r.q)
          THEN {[r EXCEPT !.q = Push(@, [op |-> "Close", key |-> r.key])]}
          ELSE {})
    \cup {[r EXCEPT !.act = a] : a \in Callbacks[cb] \cap {"Close", "Shutdown"}}

(* The step leaves the connection in its slot.                             *)
Keep(r) ==
  /\ conns' = [conns EXCEPT ![r.key] = r.c]
  /\ sk' = [sk EXCEPT ![r.c.sock] = r.x]
  /\ queue' = r.q
  /\ sent' = [sent EXCEPT ![r.c.sock] = @ \cup r.sent]

(* Output left behind where nothing reregisters the socket.                *)
Loose(r) == [r EXCEPT !.c.loose = r.c.loose \/ r.c.out # {}]

(* Variant with a fault: write interest is only ever taken away.           *)
ReregisteredIdle(r) ==
  [r EXCEPT !.x = IF r.c.out = {} THEN DisableWrite(@) ELSE @, !.c.loose = FALSE]

(* reregister.                                                             *)
Reregistered(r) ==
  [r EXCEPT !.x = IF r.c.out = {} THEN DisableWrite(@) ELSE EnableWrite(@),
            !.c.loose = FALSE]

-----------------------------------------------------------------------------
(* close_connection on the occupant of r.key, as r describes it.           *)

Closing(r, graceful) ==
  UNION {Callback("on_close", f) :
           f \in IF graceful THEN FlushOutcomes(r) ELSE {[r EXCEPT !.c.out = {}]}}

(* Variant with a fault: an abortive close does not call on_close.         *)
CloseAsQuietly(r, graceful) ==
  \E d \in Closing(r, graceful) :
    LET s == d.c.sock IN
    /\ conns' = [conns EXCEPT ![d.key] = None]
    /\ pool' = Append(pool, [in |-> d.c.in, io |-> d.c.io, out |-> d.c.out])
    /\ count' = count - 1
    /\ sk' = [sk EXCEPT ![s] = Closed]
    /\ queue' = d.q
    /\ sent' = [sent EXCEPT ![s] = @ \cup d.sent]
    /\ closes' = IF graceful THEN [closes EXCEPT ![s] = @ + 1] ELSE closes

CloseAs(r, graceful) ==
  \E d \in Closing(r, graceful) :
    LET s == d.c.sock IN
    /\ conns' = [conns EXCEPT ![d.key] = None]
    /\ pool' = Append(pool, [in |-> d.c.in, io |-> d.c.io, out |-> d.c.out])
    /\ count' = count - 1
    /\ sk' = [sk EXCEPT ![s] = Closed]
    /\ queue' = d.q
    /\ sent' = [sent EXCEPT ![s] = @ \cup d.sent]
    /\ closes' = [closes EXCEPT ![s] = @ + 1]

(* Variant with a fault: the count drops though there is no connection.    *)
CloseConnectionUnchecked(k, graceful, q) ==
  IF Live(k)
  THEN CloseAs(Now(k, q), graceful)
  ELSE /\ queue' = q
       /\ count' = count - 1
       /\ UNCHANGED <<conns, pool, sk, sent, closes>>

CloseConnection(k, graceful, q) ==
  IF Live(k)
  THEN CloseAs(Now(k, q), graceful)
  ELSE /\ queue' = q
       /\ UNCHANGED <<conns, pool, count, sk, sent, closes>>

(* Connection::new and Connection::reset.                                  *)
Fresh(seq, s) ==
  [seq |-> seq, sock |-> s, in |-> {}, io |-> {}, out |-> {}, loose |-> FALSE]

(* Variant with a fault: in_buffer is not cleared.                         *)
ResetKeepsInput(old, seq, s) ==
  [seq |-> seq, sock |-> s, in |-> old.in, io |-> {}, out |-> {},
   loose |-> FALSE]

Reset(old, seq, s) ==
  [seq |-> seq, sock |-> s, in |-> {}, io |-> {}, out |-> {}, loose |-> FALSE]

(* register: on_open sees a connection that is not in the slab yet; if it  *)
(* returns Close or Shutdown the connection is dropped, its pool entry too *)
Register(s, q) ==
  \E k \in {key \in Keys : ~Live(key)} :
    LET seq == Len(gfds) + 1
        c == IF pool = <<>> THEN Fresh(seq, s)
                            ELSE Reset(pool[Len(pool)], seq, s)
        x == PollRegister(sk[s])
        r0 == [key |-> k, c |-> c, x |-> x, q |-> q, sent |-> {},
               ok |-> TRUE, act |-> "None"]
    IN \E r \in Callback("on_open", r0) :
         /\ gfds' = Append(gfds, [sock |-> s, key |-> k, kept |-> r.act = "None"])
         /\ pool' = IF pool = <<>> THEN pool ELSE SubSeq(pool, 1, Len(pool) - 1)
         /\ IF r.act = "None"
            THEN Keep(Loose(r)) /\ count' = count + 1
            ELSE /\ sk' = [sk EXCEPT ![s] = Closed]
                 /\ queue' = r.q
                 /\ sent' = [sent EXCEPT ![s] = @ \cup r.sent]
                 /\ UNCHANGED <<conns, count>>
         /\ pc' = IF r.act = "Shutdown" THEN "shutdown" ELSE pc
         /\ UNCHANGED <<scene, cur, batch, waking, app, got, closes>>

-----------------------------------------------------------------------------
(* The environment: peers, the acceptor thread, application threads.       *)

(* The acceptor hands a socket over: accept_loop.                          *)
Accept(s) ==
  /\ ~ReusePort
  /\ sk[s].st = "new"
  /\ pc \notin {"stopped", "failed"}
  /\ sk' = [sk EXCEPT ![s].st = "queued"]
  /\ queue' = [queue EXCEPT !.urgent = Append(@, [op |-> "Register", sock |-> s])]
  /\ UNCHANGED <<scene, slab, control, app, history>>

(* A change of readiness puts a registered socket on epoll's ready list.   *)
Signal(s, x) ==
  /\ sk' = [sk EXCEPT ![s] = [x EXCEPT !.edge = @ \/ x.rint \/ (x.err /\ x.st = "open")]]
  /\ UNCHANGED <<scene, slab, queue, control, app, history>>

Arrive(s) ==
  /\ "sends" \in Peer
  /\ sk[s].st \in {"queued", "open"}
  /\ sk[s].left > 0 /\ ~sk[s].fin /\ ~sk[s].err
  /\ Signal(s, [sk[s] EXCEPT !.left = @ - 1, !.rx = @ + 1])

PeerCloses(s) ==
  /\ "closes" \in Peer
  /\ sk[s].st \in {"queued", "open"}
  /\ ~sk[s].fin /\ ~sk[s].err
  /\ Signal(s, [sk[s] EXCEPT !.fin = TRUE])

PeerResets(s) ==
  /\ "resets" \in Peer
  /\ sk[s].st \in {"queued", "open"}
  /\ ~sk[s].err
  /\ Signal(s, [sk[s] EXCEPT !.err = TRUE, !.rx = 0])

(* The peer reads: the send buffer has room again.                         *)
PeerReads(s) ==
  /\ sk[s].st = "open"
  /\ ~sk[s].room
  /\ sk' = [sk EXCEPT ![s].room = TRUE, ![s].edge = @ \/ sk[s].wint]
  /\ UNCHANGED <<scene, slab, queue, control, app, history>>

(* EngineHandler::send_command, with any gfd the handler has seen, and     *)
(* shutdown.                                                               *)
AppCommands ==
  {[op |-> "AsyncWrite", seq |-> i] : i \in DOMAIN gfds}
    \cup {[op |-> "Close", key |-> gfds[i].key] : i \in DOMAIN gfds}
    \cup {[op |-> "Shutdown"]}

AppSend(c) ==
  /\ c.op \in AppOps
  /\ app < MaxApp
  /\ pc \notin {"stopped", "failed"}
  /\ app' = app + 1
  /\ queue' = Push(queue, c)
  /\ UNCHANGED <<scene, slab, sk, control, history>>

-----------------------------------------------------------------------------
(* run_loop: epoll_wait.  A batch has at most one event per socket; an     *)
(* error event may or may not come with the readable and writable flags.   *)
Reported == {s \in Socks : sk[s].st = "open" /\ sk[s].edge /\ Ready(sk[s])}

KeyOf(s) == CHOOSE k \in Keys : Live(k) /\ conns[k].sock = s

EventOf(s, bare) ==
  LET x == sk[s] IN
  [key |-> KeyOf(s),
   r |-> x.rint /\ (x.rx > 0 \/ x.fin \/ x.err) /\ ~(x.err /\ bare),
   w |-> x.wint /\ (x.room \/ x.err) /\ ~(x.err /\ bare),
   e |-> x.err]

StartCommands == pc' = "cmd" /\ budget' = MaxBatch

Poll ==
  /\ pc = "poll"
  /\ \E bare \in BOOLEAN : batch' = {EventOf(s, bare) : s \in Reported}
  /\ \E w \in BOOLEAN : waking' = w
  /\ sk' = [s \in Socks |-> [sk[s] EXCEPT !.edge = FALSE]]
  /\ IF Queued(queue) THEN StartCommands
                      ELSE pc' = "events" /\ UNCHANGED budget
  /\ UNCHANGED <<scene, slab, queue, cur, app, history>>

(* process_command, one action per command.                                *)
Take(op) ==
  /\ pc = "cmd" /\ budget > 0
  /\ Queued(queue)
  /\ NextCommand(queue).op = op
  /\ budget' = budget - 1

(* Variant with a fault: the slot is used without comparing the gfd.       *)
AnyOccupant(k, g) == Live(k)

SameGfd(k, g) == Live(k) /\ conns[k].seq = g

ProcessAsyncWrite ==
  /\ Take("AsyncWrite")
  /\ LET g == NextCommand(queue).seq
         k == gfds[g].key
         q == Rest(queue)
     IN IF SameGfd(k, g)
        THEN \E r \in WriteOutcomes(Now(k, q), gfds[g].sock) :
               IF r.ok
               THEN Keep(Reregistered(r)) /\ UNCHANGED <<pool, count, closes>>
               ELSE CloseAs(r, FALSE)
        ELSE queue' = q /\ UNCHANGED <<conns, pool, count, sk, sent, closes>>
  /\ UNCHANGED <<scene, gfds, pc, cur, batch, waking, app, got>>

ProcessRegister ==
  /\ Take("Register")
  /\ Register(NextCommand(queue).sock, Rest(queue))

ProcessClose ==
  /\ Take("Close")
  /\ CloseConnection(NextCommand(queue).key, TRUE, Rest(queue))
  /\ UNCHANGED <<scene, gfds, pc, cur, batch, waking, app, got>>

Start(step, k, read, cmd) ==
  /\ pc' = step
  /\ cur' = [key |-> k, r |-> read, n |-> 0, cmd |-> cmd]

ProcessReadWrite ==
  /\ \/ Take("Read") /\ Start("read", NextCommand(queue).key, FALSE, TRUE)
     \/ Take("Write") /\ Start("write", NextCommand(queue).key, FALSE, TRUE)
  /\ queue' = Rest(queue)
  /\ UNCHANGED <<scene, slab, sk, batch, waking, app, history>>

ProcessShutdown ==
  /\ Take("Shutdown")
  /\ pc' = "shutdown"
  /\ queue' = Rest(queue)
  /\ UNCHANGED <<scene, slab, sk, cur, batch, waking, app, history>>

EndCommands ==
  /\ pc = "cmd"
  /\ budget = 0 \/ ~Queued(queue)
  /\ pc' = "events"
  /\ budget' = 0
  /\ UNCHANGED <<scene, slab, sk, queue, cur, batch, waking, app, history>>

-----------------------------------------------------------------------------
(* The events of the batch.                                                *)

HandleWake ==
  /\ pc = "events" /\ waking
  /\ waking' = FALSE
  /\ StartCommands
  /\ UNCHANGED <<scene, slab, sk, queue, cur, batch, app, history>>

(* accept_process: one accepted socket.                                    *)
AcceptProcess(s) ==
  /\ ReusePort
  /\ pc = "events"
  /\ sk[s].st = "new"
  /\ Register(s, queue)
  /\ UNCHANGED budget

(* process_io, its early return: nothing but an error.                     *)
ErrorEvent(ev) ==
  /\ pc = "events" /\ ev \in batch
  /\ ev.e /\ ~ev.r /\ ~ev.w
  /\ batch' = batch \ {ev}
  /\ CloseConnection(ev.key, FALSE, queue)
  /\ UNCHANGED <<scene, gfds, pc, budget, cur, waking, app, got>>

ProcessIO(ev) ==
  /\ pc = "events" /\ ev \in batch
  /\ ev.r \/ ev.w
  /\ batch' = batch \ {ev}
  /\ Start(IF ev.e \/ ev.w THEN "write" ELSE "read", ev.key, ev.e \/ ev.r, FALSE)
  /\ UNCHANGED <<scene, slab, sk, queue, budget, waking, app, history>>

EndEvents ==
  /\ pc = "events" /\ ~waking /\ batch = {}
  /\ pc' = "tick"
  /\ UNCHANGED <<scene, slab, sk, queue, budget, cur, batch, waking, app,
                 history>>

(* Where a socket operation continues.                                     *)
AfterWrite ==
  IF cur.cmd THEN pc' = "cmd" /\ cur' = Idle
  ELSE pc' = (IF cur.r THEN "read" ELSE "rereg") /\ UNCHANGED cur

AfterRead ==
  IF cur.cmd THEN pc' = "cmd" /\ cur' = Idle
             ELSE pc' = "rereg" /\ UNCHANGED cur

(* write_socket: Completed reregisters, Yield queues Write, an error       *)
(* closes.                                                                 *)
WriteSocket ==
  /\ pc = "write"
  /\ LET k == cur.key IN
     IF Live(k)
     THEN \/ \E r \in FlushOutcomes(Now(k, queue)) :
               IF r.ok
               THEN Keep(Reregistered(r)) /\ UNCHANGED <<pool, count, closes>>
               ELSE CloseAs(r, FALSE)
          \/ LET r == Now(k, queue) IN
             /\ r.c.out # {} /\ r.x.room /\ ~r.x.err /\ ~Full(queue)
             /\ Keep([r EXCEPT !.sent = @ \cup r.c.out,
                               !.q = Push(@, [op |-> "Write", key |-> k])])
             /\ UNCHANGED <<pool, count, closes>>
     ELSE UNCHANGED <<conns, pool, count, sk, queue, sent, closes>>
  /\ AfterWrite
  /\ UNCHANGED <<scene, gfds, budget, batch, waking, app, got>>

(* read_socket, one read of the socket per step.                           *)
Reading == pc = "read" /\ Live(cur.key)

Current == Now(cur.key, queue)

(* Variant with a fault: one chunk too many.                               *)
OneMoreChunk == cur.n <= MaxRead

(* The batch limit of process_read.                                        *)
WithinBatch == cur.n < MaxRead

(* No such connection, or the socket would block.                          *)
ReadCompleted ==
  /\ pc = "read"
  /\ Live(cur.key) =>
       WithinBatch /\ Current.x.rx = 0 /\ ~Current.x.fin /\ ~Current.x.err
  /\ AfterRead
  /\ UNCHANGED <<scene, slab, sk, queue, budget, batch, waking, app, history>>

ReadYield ==
  /\ Reading /\ ~WithinBatch
  /\ queue' = Push(queue, [op |-> "Read", key |-> cur.key])
  /\ AfterRead
  /\ UNCHANGED <<scene, slab, sk, budget, batch, waking, app, history>>

(* End of stream closes gracefully; an error, Interrupted too, does not.   *)
ReadClosed ==
  /\ Reading /\ WithinBatch
  /\ \/ /\ Current.x.err \/ "interrupts" \in Peer
        /\ CloseAs(Current, FALSE)
     \/ /\ ~Current.x.err /\ Current.x.rx = 0 /\ Current.x.fin
        /\ CloseAs(Current, TRUE)
  /\ AfterRead
  /\ UNCHANGED <<scene, gfds, budget, batch, waking, app, got>>

(* A chunk goes to io_buffer and on_traffic, which consumes everything or  *)
(* nothing; what is left is stashed in in_buffer unless the handler ends   *)
(* the connection or the loop.                                             *)
Received ==
  LET r == Current IN [r EXCEPT !.x.rx = @ - 1, !.c.io = {r.c.sock}]

Consumed(r) == [r EXCEPT !.c.in = {}, !.c.io = {}]

Stashed(r) == [r EXCEPT !.c.in = @ \cup r.c.io, !.c.io = {}]

ReadChunk ==
  /\ Reading /\ WithinBatch
  /\ Current.x.rx > 0 /\ ~Current.x.err
  /\ got' = [got EXCEPT ![Current.c.sock] =
               @ \cup Received.c.in \cup Received.c.io]
  /\ \E given \in {Received, Consumed(Received)} :
     \E r \in Callback("on_traffic", given) :
       \/ /\ r.act = "None"
          /\ Keep(IF cur.cmd THEN Loose(Stashed(r)) ELSE Stashed(r))
          /\ cur' = [cur EXCEPT !.n = @ + 1]
          /\ UNCHANGED <<pool, count, closes, pc>>
       \/ /\ r.act = "Close"
          /\ CloseAs(r, TRUE)
          /\ AfterRead
       \/ /\ r.act = "Shutdown"
          /\ Keep(r)
          /\ cur' = Idle
          /\ pc' = "shutdown"
          /\ UNCHANGED <<pool, count, closes>>
  /\ UNCHANGED <<scene, gfds, budget, batch, waking, app>>

(* The reregister at the end of process_io.                                *)
Reregister ==
  /\ pc = "rereg"
  /\ IF Live(cur.key) THEN Keep(Reregistered(Current))
                      ELSE UNCHANGED <<conns, sk, queue, sent>>
  /\ pc' = "events"
  /\ cur' = Idle
  /\ UNCHANGED <<scene, pool, count, gfds, budget, batch, waking, app, got,
                 closes>>

-----------------------------------------------------------------------------
(* on_tick works on the connections one by one and then returns.           *)
Tick(k) ==
  /\ pc = "tick" /\ Live(k)
  /\ \E r \in Callback("on_tick", Now(k, queue)) :
       r.act = "None" /\ Keep(Loose(r))
  /\ UNCHANGED <<scene, pool, count, gfds, control, app, got, closes>>

EndTick ==
  /\ pc = "tick"
  /\ pc' \in {"poll"} \cup {"shutdown" : a \in Callbacks["on_tick"] \cap {"Shutdown"}}
  /\ UNCHANGED <<scene, slab, sk, queue, budget, cur, batch, waking, app,
                 history>>

(* shutdown: close_connection for every key, then the loop returns and     *)
(* drops its channels.                                                     *)
ShutdownClose(k) ==
  /\ pc = "shutdown" /\ Live(k)
  /\ CloseConnection(k, TRUE, queue)
  /\ UNCHANGED <<scene, gfds, control, app, got>>

Stopped(how) ==
  /\ pc' = how
  /\ budget' = 0
  /\ queue' = [urgent |-> <<>>, common |-> <<>>]
  /\ cur' = Idle
  /\ batch' = {}
  /\ waking' = FALSE
  /\ UNCHANGED <<scene, slab, sk, app, history>>

ShutdownEnd ==
  /\ pc = "shutdown" /\ \A k \in Keys : ~Live(k)
  /\ Stopped("stopped")

(* epoll_wait, or epoll_ctl for a socket that is added or changed, fails:  *)
(* `?` takes the loop out of run_loop at once, without shutdown.  That     *)
(* removing a registered socket from epoll succeeds is assumed.            *)
Fail ==
  /\ pc \in {"poll", "cmd", "events", "write", "read", "rereg"}
  /\ Stopped("failed")

Environment ==
  \/ \E s \in Socks : \/ Accept(s) \/ Arrive(s) \/ PeerCloses(s)
                      \/ PeerResets(s) \/ PeerReads(s)
  \/ \E c \in AppCommands : AppSend(c)

LoopStep ==
  \/ Poll
  \/ ProcessAsyncWrite \/ ProcessRegister \/ ProcessClose
  \/ ProcessReadWrite \/ ProcessShutdown \/ EndCommands
  \/ HandleWake
  \/ \E s \in Socks : AcceptProcess(s)
  \/ \E ev \in batch : ErrorEvent(ev) \/ ProcessIO(ev)
  \/ EndEvents
  \/ WriteSocket
  \/ ReadCompleted \/ ReadYield \/ ReadClosed \/ ReadChunk
  \/ Reregister
  \/ \E k \in Keys : Tick(k) \/ ShutdownClose(k)
  \/ EndTick \/ ShutdownEnd

Next == Environment \/ LoopStep \/ Fail

Spec == Init /\ [][Next]_vars

(* The loop's thread keeps running; nobody else has to do anything.        *)
FairSpec == Spec /\ WF_vars(LoopStep)

-----------------------------------------------------------------------------
Waiting == pc = "poll"

(* No byte crosses from one connection to another on its way out: whatever *)
(* was written for a connection, directly, through AsyncWrite or from a    *)
(* backlog, reaches only that connection's socket, though slots and        *)
(* Connection values are reused (event_loop.rs 296-316, 415-424, 452-475;  *)
(* connection.rs 76-103).                                                  *)
OutputIsolation == \A s \in Socks : sent[s] \subseteq {s}

(* on_traffic of a connection sees only bytes that came in on its own      *)
(* socket, never what a previous user of the recycled Connection left in   *)
(* in_buffer or io_buffer (event_loop.rs 526-546, connection.rs 94-99).    *)
InputIsolation == \A s \in Socks : got[s] \subseteq {s}

(* The counter the balancer reads is the number of connections in the      *)
(* slab, on every path that opens, rejects or closes one (event_loop.rs    *)
(* 435-448 and 452-475).                                                   *)
CountMatchesSlab == count = Cardinality({k \in Keys : Live(k)})

Admitted(s) == \E k \in Keys : Live(k) /\ conns[k].sock = s

Kept(s) == \E i \in DOMAIN gfds : gfds[i].sock = s /\ gfds[i].kept

(* on_close has been called exactly once for every connection that was     *)
(* kept after on_open and has left the slab, whatever closed it (an event, *)
(* an error, a command, a callback), and for no other; and a loop that has *)
(* shut down has called it for every connection it ever kept               *)
(* (event_loop.rs 440-457, 464 and 641-652).                               *)
ClosedOnce ==
  \A s \in Socks :
    closes[s] = IF Kept(s) /\ (pc = "stopped" \/ ~Admitted(s)) THEN 1 ELSE 0

(* With edge-triggered events nothing is reported twice, so whenever the   *)
(* loop goes to sleep, a connection with unread bytes, an end of stream or *)
(* an error has an event due or a Read command queued (event_loop.rs       *)
(* 373-393, 478-498 and 514-517).                                          *)
NoStrandedInput ==
  Waiting => \A k \in Keys :
    Live(k) =>
      LET x == sk[conns[k].sock] IN
      x.rx > 0 \/ x.fin \/ x.err
        => x.edge \/ InQueue([op |-> "Read", key |-> k])

(* Likewise for output: when the loop goes to sleep, a backlog has write   *)
(* interest, with an event due if the socket has room, or a Write command  *)
(* queued.  Exempt is the backlog left by on_open, on_tick or a Read       *)
(* command, which do not reregister (event_loop.rs 172-183, 315, 390,      *)
(* 561-566).                                                               *)
OutputArmed ==
  Waiting => \A k \in Keys :
    Live(k) /\ conns[k].out # {} /\ ~conns[k].loose =>
      LET x == sk[conns[k].sock] IN
      \/ x.wint /\ (x.room => x.edge)
      \/ InQueue([op |-> "Write", key |-> k])

Unread(s) == sk[s].st = "open" /\ (sk[s].rx > 0 \/ sk[s].fin \/ sk[s].err)

(* Whatever a peer sends, its end of stream included, is eventually read,  *)
(* unless the connection or the loop ends first: no edge is lost between   *)
(* the batch limit, the Read command and the interest changes              *)
(* (event_loop.rs 373-393 and 478-554).                                    *)
InputServed ==
  \A s \in Socks :
    Unread(s) ~> (~Unread(s) \/ pc \in {"stopped", "failed"})
=============================================================================
