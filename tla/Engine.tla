------------------------------- MODULE Engine -------------------------------
(***************************************************************************)
(* The engine around the event loops: EngineBuilder::build, Engine::run    *)
(* with its two ways to start (run_user_lb and run_reuse_port), the        *)
(* acceptor thread with the balancer, and EngineHandler::shutdown, which   *)
(* any thread may call at any moment.                                      *)
(*                                                                         *)
(* An event loop is reduced to its life cycle, its urgent channel and its  *)
(* number of connections (EventLoop.tla has the rest), the worker pool to  *)
(* whether submit finds it (WorkerPool.tla).  A loop takes what is in its  *)
(* channel: that its wake-ups are not lost is shown in CommandQueue.tla.   *)
(***************************************************************************)
EXTENDS Naturals, Sequences, FiniteSets, FiniteSetsExt

CONSTANTS
  N,          \* cores.len(): the number of event loops
  Conns,      \* the connections peers open, each at most once
  Callers,    \* threads that call EngineHandler::shutdown, each once
  None,       \* no connection
  Scenes      \* the options, and what the environment may do with them

Loops == 0..(N - 1)

Acceptor == N

Policies == {"RoundRobin", "LeastConnections", "SourceAddrHash"}

Failures == {"start", "poll", "accept", "loop", "panic"}

ASSUME EngineAssumption ==
  /\ N \in Nat
  /\ None \notin Conns /\ "Shutdown" \notin Conns
  /\ Scenes \subseteq
       [reuse_port : BOOLEAN, lb : Policies, faults : SUBSET Failures,
        peers : SUBSET Conns, callers : SUBSET Callers]

VARIABLES
  scene,     \* the one this program runs in
  main,      \* the thread that calls build and run
  step,      \* main's loop counter: loops made, spawned or joined
  handles,   \* the OnceLocks of EngineHandler that have been set
  pool,      \* the worker pool as submit sees it
  loop,      \* loop[i]: the life cycle of loop i
  queue,     \* queue[i]: the urgent channel of loop i
  conns,     \* conns[i]: the connections in the slab of loop i
  count,     \* count[i]: conn_count of loop i
  accepting, \* the loops that are in accept_process
  acc,       \* where the acceptor thread is
  events,    \* events of the acceptor's poll not handled yet
  hand,      \* the socket accept_loop has just accepted
  scan,      \* the connection counts LeastConnections has read
  target,    \* the loop the balancer selected
  next,      \* RoundRobin.next
  running,   \* is_running
  awoken,    \* Waker.awoken of the acceptor
  edge,      \* tokens with an edge that the acceptor's epoll has to report
  fresh,     \* the peers that have not connected yet
  listening, \* the loops, or the acceptor, whose listeners are open
  backlog,   \* backlog[o]: connections waiting in the listeners of o
  ready,     \* the loops whose epoll has an edge of a listener to report
  call,      \* call[c]: where caller c is in EngineHandler::shutdown
  told,      \* told[c]: the loops it has sent Shutdown to so far
  given,     \* history: given[i], sockets the balancer selected loop i for
  missed,    \* history: when submit found no pool
  heard,     \* history: a shutdown began after both handles had been set
  refused,   \* history: accept failed with an error
  calm       \* history: conn_count was exact whenever a balancer read it,
             \* and no connection or loop has ended

control == <<main, step, handles, pool>>
loops == <<loop, queue, conns, count, accepting>>
balancer == <<scan, target, next, given>>
acceptor == <<acc, events, hand, running, awoken, edge>>
kernel == <<fresh, listening, backlog, ready>>
callers == <<call, told>>
history == <<missed, heard, refused, calm>>
vars == <<scene, control, loops, balancer, acceptor, kernel, callers, history>>

ReusePort == scene.reuse_port  \* options.reuse_port
Policy == scene.lb             \* options.lb
Faults == scene.faults         \* what may go wrong

(* Types (engine.rs 72-122, acceptor.rs 10-30), tuple by tuple.            *)
ControlOK ==
  /\ main \in {"new", "bind", "make", "workers", "acceptor", "handle",
               "spawnAcceptor", "pool", "spawn", "join", "stopPool", "ok",
               "err", "panicked"}
  /\ step \in 0..(N + 1)
  /\ handles \subseteq {"workers", "acceptor"}
  /\ pool \in {"none", "up", "gone"}

LoopsOK ==
  /\ loop \in [Loops -> {"none", "made", "running", "stopped", "panicked"}]
  /\ queue \in [Loops -> Seq(Conns \cup {"Shutdown"})]
  /\ conns \in [Loops -> SUBSET Conns]
  /\ count \in [Loops -> Nat]
  /\ accepting \subseteq Loops

BalancerOK ==
  /\ scan \in Seq(Nat)
  /\ target \in Nat
  /\ next \in Nat
  /\ given \in [Loops -> Nat]

AcceptorOK ==
  /\ acc \in {"none", "check", "poll", "events", "accept", "select", "send",
              "stopped"}
  /\ events \subseteq {"wake", "listener"}
  /\ hand \in Conns \cup {None}
  /\ running \in BOOLEAN
  /\ awoken \in BOOLEAN
  /\ edge \subseteq {"wake", "listener"}

KernelOK ==
  /\ fresh \subseteq Conns
  /\ listening \subseteq Loops \cup {Acceptor}
  /\ backlog \in [Loops \cup {Acceptor} -> SUBSET Conns]
  /\ ready \subseteq Loops

CallersOK ==
  /\ call \in [Callers -> {"idle", "flag", "swap", "write", "loops", "send",
                           "done"}]
  /\ told \in [Callers -> 0..N]

HistoryOK ==
  /\ missed \subseteq {"early", "late"}
  /\ heard \in BOOLEAN
  /\ refused \in BOOLEAN
  /\ calm \in BOOLEAN

TypeOK ==
  /\ scene \in Scenes
  /\ ControlOK /\ LoopsOK /\ BalancerOK /\ AcceptorOK
  /\ KernelOK /\ CallersOK /\ HistoryOK

Init ==
  /\ scene \in Scenes
  /\ main = "new"
  /\ step = 0
  /\ handles = {}
  /\ pool = "none"
  /\ loop = [i \in Loops |-> "none"]
  /\ queue = [i \in Loops |-> <<>>]
  /\ conns = [i \in Loops |-> {}]
  /\ count = [i \in Loops |-> 0]
  /\ accepting = {}
  /\ acc = "none"
  /\ events = {}
  /\ hand = None
  /\ scan = <<>>
  /\ target = 0
  /\ next = 0
  /\ running = TRUE
  /\ awoken = FALSE
  /\ edge = {}
  /\ fresh = scene.peers
  /\ listening = {}
  /\ backlog = [o \in Loops \cup {Acceptor} |-> {}]
  /\ ready = {}
  /\ call = [c \in Callers |-> "idle"]
  /\ told = [c \in Callers |-> 0]
  /\ given = [i \in Loops |-> 0]
  /\ missed = {}
  /\ heard = FALSE
  /\ refused = FALSE
  /\ calm = TRUE

-----------------------------------------------------------------------------
(* EngineBuilder::build and Engine::run: the main thread.                  *)

Main(from, to) == main = from /\ main' = to

(* H::init may return Shutdown; a Balancer is only made without reuse_port *)
(* and there is none for SourceAddrHash.  A balancer given to the builder  *)
(* is not used.  The builder has been given addresses.                     *)
Build ==
  /\ main = "new"
  /\ \/ main' = "err"
     \/ main' = IF ReusePort THEN "make"
                ELSE IF Policy = "SourceAddrHash" THEN "panicked" ELSE "bind"
  /\ UNCHANGED <<scene, step, handles, pool, loops, balancer, acceptor,
                 kernel, callers, history>>

(* run_user_lb binds the listeners before it makes the first loop.         *)
Bind ==
  /\ Main("bind", "make")
  /\ listening' = {Acceptor}
  /\ UNCHANGED <<scene, step, handles, pool, loops, balancer, acceptor,
                 fresh, backlog, ready, callers, history>>

(* A loop of run_user_lb runs at once, one of run_reuse_port is kept.      *)
MadeLoop == IF ReusePort THEN "made" ELSE "running"

(* EventLoop::new, with the loop's own listeners under reuse_port, which   *)
(* build registers with the loop's epoll.                                  *)
MakeLoop ==
  /\ main = "make" /\ step < N
  /\ loop' = [loop EXCEPT ![step] = MadeLoop]
  /\ listening' = listening \cup (IF ReusePort THEN {step} ELSE {})
  /\ step' = step + 1
  /\ UNCHANGED <<scene, main, handles, pool, queue, conns, count, accepting,
                 balancer, acceptor, fresh, backlog, ready, callers, history>>

(* A bind, EventLoop::new or Acceptor::new fails: run returns the error    *)
(* and drops the listeners and the loops that no thread owns.              *)
StartFails ==
  /\ "start" \in Faults
  /\ main \in {"bind", "acceptor"} \/ (main = "make" /\ step < N)
  /\ main' = "err"
  /\ loop' = [i \in Loops |-> IF loop[i] = "made" THEN "none" ELSE loop[i]]
  /\ listening' = {}
  /\ backlog' = [o \in DOMAIN backlog |-> {}]
  /\ ready' = {}
  /\ UNCHANGED <<scene, fresh, step, handles, pool, queue, conns, count,
                 accepting, balancer, acceptor, callers, history>>

LoopsMade ==
  /\ main = "make" /\ step = N
  /\ main' = "workers"
  /\ step' = 0
  /\ UNCHANGED <<scene, handles, pool, loops, balancer, acceptor, kernel,
                 callers, history>>

SetWorkers ==
  /\ Main("workers", IF ReusePort THEN "pool" ELSE "acceptor")
  /\ handles' = handles \cup {"workers"}
  /\ UNCHANGED <<scene, step, pool, loops, balancer, acceptor, kernel,
                 callers, history>>

NewAcceptor ==
  /\ Main("acceptor", "handle")
  /\ UNCHANGED <<scene, step, handles, pool, loops, balancer, acceptor,
                 kernel, callers, history>>

SetAcceptor ==
  /\ Main("handle", "spawnAcceptor")
  /\ handles' = handles \cup {"acceptor"}
  /\ UNCHANGED <<scene, step, pool, loops, balancer, acceptor, kernel,
                 callers, history>>

SpawnAcceptor ==
  /\ Main("spawnAcceptor", "pool")
  /\ acc' = "check"
  /\ UNCHANGED <<scene, step, handles, pool, loops, balancer, events, hand,
                 running, awoken, edge, kernel, callers, history>>

NewPool ==
  /\ Main("pool", IF ReusePort THEN "spawn" ELSE "join")
  /\ pool' = "up"
  /\ UNCHANGED <<scene, step, handles, loops, balancer, acceptor, kernel,
                 callers, history>>

SpawnLoop ==
  /\ main = "spawn" /\ step < N
  /\ loop' = [loop EXCEPT ![step] = "running"]
  /\ step' = step + 1
  /\ UNCHANGED <<scene, main, handles, pool, queue, conns, count, accepting,
                 balancer, acceptor, kernel, callers, history>>

LoopsSpawned ==
  /\ main = "spawn" /\ step = N
  /\ main' = "join"
  /\ step' = 0
  /\ UNCHANGED <<scene, handles, pool, loops, balancer, acceptor, kernel,
                 callers, history>>

(* Variant with a fault: the acceptor thread is not among those joined.    *)
ThreadsToJoinLoops == N

(* The threads in the order they are joined: the loops, then the acceptor. *)
ThreadsToJoin == IF ReusePort THEN N ELSE N + 1

ThreadEnd(k) == IF k = Acceptor THEN acc ELSE loop[k]

JoinThread ==
  /\ main = "join" /\ step < ThreadsToJoin
  /\ ThreadEnd(step) = "stopped"
  /\ step' = step + 1
  /\ UNCHANGED <<scene, main, handles, pool, loops, balancer, acceptor,
                 kernel, callers, history>>

(* join().unwrap(): the panic of a loop goes on in the main thread.        *)
JoinPanicked ==
  /\ main = "join" /\ step < ThreadsToJoin
  /\ ThreadEnd(step) = "panicked"
  /\ main' = "panicked"
  /\ UNCHANGED <<scene, step, handles, pool, loops, balancer, acceptor,
                 kernel, callers, history>>

(* Variant with a fault: the pool is shut down without waiting.            *)
JoinSkipped ==
  /\ main = "join"
  /\ main' = "stopPool"
  /\ UNCHANGED <<scene, step, handles, pool, loops, balancer, acceptor,
                 kernel, callers, history>>

AllJoined ==
  /\ main = "join" /\ step = ThreadsToJoin
  /\ main' = "stopPool"
  /\ UNCHANGED <<scene, step, handles, pool, loops, balancer, acceptor,
                 kernel, callers, history>>

StopPool ==
  /\ Main("stopPool", "ok")
  /\ pool' = "gone"
  /\ UNCHANGED <<scene, step, handles, loops, balancer, acceptor, kernel,
                 callers, history>>

-----------------------------------------------------------------------------
(* The event loops, as the engine sees them.                               *)

(* The thread ends and the EventLoop is dropped with it: its receivers,    *)
(* its connections and, under reuse_port, its listeners.                   *)
LoopEnds(i, how, left) ==
  /\ loop' = [loop EXCEPT ![i] = how]
  /\ queue' = [queue EXCEPT ![i] = <<>>]
  /\ conns' = [conns EXCEPT ![i] = {}]
  /\ count' = [count EXCEPT ![i] = left]
  /\ accepting' = accepting \ {i}
  /\ listening' = listening \ {i}
  /\ backlog' = [backlog EXCEPT ![i] = {}]
  /\ ready' = ready \ {i}
  /\ calm' = FALSE
  /\ UNCHANGED <<scene, fresh, control, balancer, acceptor, callers, missed,
                 heard, refused>>

(* The thread has ended and the receivers have been dropped.               *)
Gone(i) == loop[i] \in {"stopped", "panicked"}

(* Where run_loop turns to the next command or event; accept_process goes  *)
(* through the backlog before that.                                        *)
AtEvents(i) == loop[i] = "running" /\ i \notin accepting
InAccept(i) == loop[i] = "running" /\ i \in accepting

(* Variant with a fault: a registered connection is not counted.           *)
RegisterUncounted(i) ==
  /\ AtEvents(i)
  /\ queue[i] # <<>> /\ Head(queue[i]) # "Shutdown"
  /\ conns' = [conns EXCEPT ![i] = @ \cup {Head(queue[i])}]
  /\ queue' = [queue EXCEPT ![i] = Tail(@)]
  /\ UNCHANGED <<scene, control, loop, count, accepting, balancer, acceptor,
                 kernel, callers, history>>

(* Command::Register.                                                      *)
LoopRegister(i) ==
  /\ AtEvents(i)
  /\ queue[i] # <<>> /\ Head(queue[i]) # "Shutdown"
  /\ conns' = [conns EXCEPT ![i] = @ \cup {Head(queue[i])}]
  /\ count' = [count EXCEPT ![i] = @ + 1]
  /\ queue' = [queue EXCEPT ![i] = Tail(@)]
  /\ UNCHANGED <<scene, control, loop, accepting, balancer, acceptor, kernel,
                 callers, history>>

(* Command::Shutdown: every connection is closed and counted down.         *)
LoopShutdown(i) ==
  /\ AtEvents(i)
  /\ queue[i] # <<>> /\ Head(queue[i]) = "Shutdown"
  /\ LoopEnds(i, "stopped", 0)

(* A callback of the handler returns Action::Shutdown: this loop ends, the *)
(* others are not told.                                                    *)
LoopAction(i) ==
  /\ loop[i] = "running"
  /\ LoopEnds(i, "stopped", 0)

(* run_loop returns an error: nothing is closed in order and conn_count    *)
(* keeps its last value.                                                   *)
LoopFails(i) ==
  /\ "loop" \in Faults
  /\ loop[i] = "running"
  /\ LoopEnds(i, "stopped", count[i])

LoopPanics(i) ==
  /\ "panic" \in Faults
  /\ loop[i] = "running"
  /\ LoopEnds(i, "panicked", count[i])

(* Under reuse_port a loop accepts by itself: poll reports the edge of the *)
(* listener once.                                                          *)
LoopListener(i) ==
  /\ AtEvents(i)
  /\ i \in ready
  /\ ready' = ready \ {i}
  /\ accepting' = accepting \cup {i}
  /\ UNCHANGED <<scene, control, loop, queue, conns, count, balancer, acceptor,
                 fresh, listening, backlog, callers, history>>

(* accept_process: accept yields a socket, WouldBlock or another error.  A *)
(* socket that cannot be registered ends the loop (LoopFails).             *)
LoopAccept(i) ==
  /\ InAccept(i)
  /\ \E c \in backlog[i] :
       /\ backlog' = [backlog EXCEPT ![i] = @ \ {c}]
       /\ conns' = [conns EXCEPT ![i] = @ \cup {c}]
  /\ count' = [count EXCEPT ![i] = @ + 1]
  /\ UNCHANGED <<scene, control, loop, queue, accepting, balancer, acceptor,
                 fresh, listening, ready, callers, history>>

LoopWouldBlock(i) ==
  /\ InAccept(i) /\ backlog[i] = {}
  /\ accepting' = accepting \ {i}
  /\ UNCHANGED <<scene, control, loop, queue, conns, count, balancer, acceptor,
                 kernel, callers, history>>

(* Another error ends accept_process as it ends accept_loop: the rest of   *)
(* the backlog stays, and no edge is left that reports it.                 *)
LoopAcceptFails(i) ==
  /\ "accept" \in Faults
  /\ InAccept(i)
  /\ accepting' = accepting \ {i}
  /\ refused' = TRUE
  /\ UNCHANGED <<scene, control, loop, queue, conns, count, balancer, acceptor,
                 kernel, callers, missed, heard, calm>>

(* A connection is closed; in accept_process it is one that on_open has    *)
(* just rejected.                                                          *)
LoopClose(i) ==
  /\ loop[i] = "running"
  /\ \E c \in conns[i] : conns' = [conns EXCEPT ![i] = @ \ {c}]
  /\ count' = [count EXCEPT ![i] = @ - 1]
  /\ calm' = FALSE
  /\ UNCHANGED <<scene, control, loop, queue, accepting, balancer, acceptor,
                 kernel, callers, missed, heard, refused>>

(* A callback calls worker::submit; without a pool the task is dropped.    *)
LoopSubmit(i) ==
  /\ loop[i] = "running"
  /\ missed' = missed \cup (CASE pool = "none" -> {"early"}
                              [] pool = "up"   -> {}
                              [] pool = "gone" -> {"late"})
  /\ UNCHANGED <<scene, control, loops, balancer, acceptor, kernel, callers,
                 heard, refused, calm>>

-----------------------------------------------------------------------------
(* The kernel's side of the listeners.                                     *)

(* A peer connects; under reuse_port the kernel picks a listener.  A       *)
(* listener that is registered later reports an edge for it then.          *)
Connect(c) ==
  /\ c \in fresh
  /\ fresh' = fresh \ {c}
  /\ \E o \in listening :
       /\ backlog' = [backlog EXCEPT ![o] = @ \cup {c}]
       /\ edge' = IF o = Acceptor THEN edge \cup {"listener"} ELSE edge
       /\ ready' = IF o = Acceptor THEN ready ELSE ready \cup {o}
  /\ UNCHANGED <<scene, control, loops, balancer, acc, events, hand, running,
                 awoken, listening, callers, history>>

-----------------------------------------------------------------------------
(* The acceptor thread.                                                    *)

AcceptorEnds ==
  /\ acc' = "stopped"
  /\ events' = {}
  /\ listening' = listening \ {Acceptor}
  /\ backlog' = [backlog EXCEPT ![Acceptor] = {}]
  /\ UNCHANGED <<fresh, ready>>

(* The test at the head of the loop.                                       *)
AcceptorCheck ==
  /\ acc = "check"
  /\ IF running THEN acc' = "poll" /\ UNCHANGED <<events, kernel>>
                ELSE AcceptorEnds
  /\ UNCHANGED <<scene, control, loops, balancer, hand, running, awoken,
                 edge, callers, history>>

AcceptorPoll ==
  /\ acc = "poll"
  /\ edge # {}
  /\ acc' = "events"
  /\ events' = edge
  /\ edge' = {}
  /\ UNCHANGED <<scene, control, loops, balancer, hand, running, awoken,
                 kernel, callers, history>>

(* A listener cannot be registered, or poll fails for another reason than  *)
(* a signal: run returns the error.                                        *)
AcceptorFails ==
  /\ "poll" \in Faults
  /\ acc \in {"check", "poll"}
  /\ AcceptorEnds
  /\ UNCHANGED <<scene, control, loops, balancer, hand, running, awoken,
                 edge, callers, history>>

(* EINTR while nothing is ready.                                           *)
AcceptorInterrupted ==
  /\ acc = "poll"
  /\ edge = {}
  /\ acc' = "check"
  /\ UNCHANGED <<scene, control, loops, balancer, events, hand, running,
                 awoken, edge, kernel, callers, history>>

(* WAKE_TOKEN: is_running is read again before the waker is reset.         *)
AcceptorWake ==
  /\ acc = "events" /\ "wake" \in events
  /\ IF running
     THEN /\ events' = events \ {"wake"}
          /\ awoken' = FALSE
          /\ UNCHANGED <<acc, kernel>>
     ELSE AcceptorEnds /\ UNCHANGED awoken
  /\ UNCHANGED <<scene, control, loops, balancer, hand, running, edge,
                 callers, history>>

AcceptorListener ==
  /\ acc = "events" /\ "listener" \in events
  /\ events' = events \ {"listener"}
  /\ acc' = "accept"
  /\ UNCHANGED <<scene, control, loops, balancer, hand, running, awoken,
                 edge, kernel, callers, history>>

AcceptorBatchDone ==
  /\ acc = "events" /\ events = {}
  /\ acc' = "check"
  /\ UNCHANGED <<scene, control, loops, balancer, events, hand, running,
                 awoken, edge, kernel, callers, history>>

(* accept_loop: accept yields a socket, WouldBlock or another error.       *)
Accept ==
  /\ acc = "accept"
  /\ \E c \in backlog[Acceptor] :
       /\ backlog' = [backlog EXCEPT ![Acceptor] = @ \ {c}]
       /\ hand' = c
  /\ acc' = "select"
  /\ UNCHANGED <<scene, control, loops, balancer, events, running, awoken,
                 edge, fresh, listening, ready, callers, history>>

AcceptWouldBlock ==
  /\ acc = "accept" /\ backlog[Acceptor] = {}
  /\ acc' = "events"
  /\ UNCHANGED <<scene, control, loops, balancer, events, hand, running,
                 awoken, edge, kernel, callers, history>>

(* Another error ends accept_loop with the rest of the backlog unread; the *)
(* listener's edge has been used up.                                       *)
AcceptFails ==
  /\ "accept" \in Faults
  /\ acc = "accept"
  /\ acc' = "events"
  /\ refused' = TRUE
  /\ UNCHANGED <<scene, control, loops, balancer, events, hand, running,
                 awoken, edge, kernel, callers, missed, heard, calm>>

Rotation(n) == IF N = 0 THEN 0 ELSE n % N

Selected(i) ==
  /\ target' = i
  /\ given' = [given EXCEPT ![i] = @ + 1]
  /\ acc' = "send"

(* RoundRobin::select.                                                     *)
SelectRoundRobin ==
  /\ acc = "select" /\ Policy = "RoundRobin"
  /\ Selected(Rotation(next))
  /\ next' = IF N = 0 THEN next ELSE next + 1
  /\ UNCHANGED <<scene, control, loops, scan, events, hand, running, awoken,
                 edge, kernel, callers, history>>

(* LeastConnections::select reads the counts one after the other, while    *)
(* the loops go on.                                                        *)
ReadCount ==
  /\ acc = "select" /\ Policy = "LeastConnections"
  /\ Len(scan) < N
  /\ scan' = Append(scan, count[Len(scan)])
  /\ calm' = (calm /\ \A i \in Loops : queue[i] = <<>>)
  /\ UNCHANGED <<scene, control, loops, target, next, given, acceptor,
                 kernel, callers, missed, heard, refused>>

(* Variant with a fault: the loop with most connections.                   *)
MostOf(counts) ==
  IF N = 0 THEN 0
  ELSE Min({i \in Loops : \A j \in Loops : counts[i + 1] >= counts[j + 1]})

(* min_by_key: the first of the loops with the least count.                *)
LeastOf(counts) ==
  IF N = 0 THEN 0
  ELSE Min({i \in Loops : \A j \in Loops : counts[i + 1] <= counts[j + 1]})

SelectLeast ==
  /\ acc = "select" /\ Policy = "LeastConnections"
  /\ Len(scan) = N
  /\ Selected(LeastOf(scan))
  /\ scan' = <<>>
  /\ UNCHANGED <<scene, control, loops, next, events, hand, running, awoken,
                 edge, kernel, callers, history>>

(* Variant with a fault: one socket is accepted per event.                 *)
AfterOneSocket == "events"

(* accept_loop goes on until accept would block.                           *)
AfterSocket == "accept"

(* The Register command, sent to the urgent channel; the socket is dropped *)
(* if the loop is gone, or if there is none.                               *)
HandOver ==
  /\ acc = "send"
  /\ queue' = IF target \in Loops /\ ~Gone(target)
              THEN [queue EXCEPT ![target] = Append(@, hand)]
              ELSE queue
  /\ hand' = None
  /\ acc' = AfterSocket
  /\ UNCHANGED <<scene, control, loop, conns, count, accepting, balancer,
                 events, running, awoken, edge, kernel, callers, history>>

-----------------------------------------------------------------------------
(* EngineHandler::shutdown, called by any thread.                          *)

Ready ==
  handles = IF ReusePort THEN {"workers"} ELSE {"workers", "acceptor"}

Call(c, from, to) == call[c] = from /\ call' = [call EXCEPT ![c] = to]

(* Variant with a fault: without an acceptor there is nothing to stop.     *)
NoAcceptorStep == "done"

(* Without an acceptor handle, shutdown goes on to the loops.              *)
WithoutAcceptor == "loops"

CallShutdown(c) ==
  /\ c \in scene.callers
  /\ Call(c, "idle",
          IF "acceptor" \in handles THEN "flag" ELSE WithoutAcceptor)
  /\ heard' = (heard \/ Ready)
  /\ UNCHANGED <<scene, control, loops, balancer, acceptor, kernel, told,
                 missed, refused, calm>>

(* Variant with a fault: the acceptor is not woken.                        *)
AfterFlagNoWake == "loops"

AfterFlag == "swap"

(* AcceptorHandle::shutdown: is_running first, then the waker.             *)
ClearRunning(c) ==
  /\ Call(c, "flag", AfterFlag)
  /\ running' = FALSE
  /\ UNCHANGED <<scene, control, loops, balancer, acc, events, hand, awoken,
                 edge, kernel, told, history>>

SwapAwoken(c) ==
  /\ Call(c, "swap", IF awoken THEN "loops" ELSE "write")
  /\ awoken' = TRUE
  /\ UNCHANGED <<scene, control, loops, balancer, acc, events, hand, running,
                 edge, kernel, told, history>>

WriteEventfd(c) ==
  /\ Call(c, "write", "loops")
  /\ edge' = edge \cup {"wake"}
  /\ UNCHANGED <<scene, control, loops, balancer, acc, events, hand, running,
                 awoken, kernel, told, history>>

ReadWorkers(c) ==
  /\ Call(c, "loops", IF "workers" \in handles THEN "send" ELSE "done")
  /\ UNCHANGED <<scene, control, loops, balancer, acceptor, kernel, told,
                 history>>

(* EventLoopHandle::shutdown of one loop after the other; the send fails   *)
(* if the loop is gone.                                                    *)
SendShutdown(c) ==
  /\ call[c] = "send" /\ told[c] < N
  /\ queue' = IF Gone(told[c]) THEN queue
              ELSE [queue EXCEPT ![told[c]] = Append(@, "Shutdown")]
  /\ told' = [told EXCEPT ![c] = @ + 1]
  /\ UNCHANGED <<scene, control, loop, conns, count, accepting, balancer,
                 acceptor, kernel, call, history>>

ShutdownSent(c) ==
  /\ told[c] = N
  /\ Call(c, "send", "done")
  /\ UNCHANGED <<scene, control, loops, balancer, acceptor, kernel, told,
                 history>>

-----------------------------------------------------------------------------
MainStep ==
  \/ Bind \/ MakeLoop \/ LoopsMade \/ SetWorkers \/ NewAcceptor \/ SetAcceptor
  \/ SpawnAcceptor \/ NewPool \/ SpawnLoop \/ LoopsSpawned \/ JoinThread
  \/ JoinPanicked \/ AllJoined \/ StopPool

LoopStep(i) ==
  \/ LoopRegister(i) \/ LoopShutdown(i)
  \/ LoopListener(i) \/ LoopAccept(i) \/ LoopWouldBlock(i)

AcceptorStep ==
  \/ AcceptorCheck \/ AcceptorPoll \/ AcceptorWake \/ AcceptorListener
  \/ AcceptorBatchDone \/ Accept \/ AcceptWouldBlock \/ SelectRoundRobin
  \/ ReadCount \/ SelectLeast \/ HandOver

CallerStep(c) ==
  \/ ClearRunning(c) \/ SwapAwoken(c) \/ WriteEventfd(c) \/ ReadWorkers(c)
  \/ SendShutdown(c) \/ ShutdownSent(c)

Next ==
  \/ Build \/ StartFails \/ MainStep
  \/ \E i \in Loops :
       LoopStep(i) \/ LoopAction(i) \/ LoopFails(i) \/ LoopPanics(i)
         \/ LoopClose(i) \/ LoopSubmit(i) \/ LoopAcceptFails(i)
  \/ \E c \in Conns : Connect(c)
  \/ AcceptorStep \/ AcceptorInterrupted \/ AcceptorFails \/ AcceptFails
  \/ \E c \in Callers : CallShutdown(c) \/ CallerStep(c)

Spec == Init /\ [][Next]_vars

(* The threads keep running: main through run, the acceptor, the loops     *)
(* while they have something to take, and a caller once inside shutdown.   *)
(* Nobody has to connect, call, fail or return Action::Shutdown.           *)
Fairness ==
  /\ WF_vars(MainStep)
  /\ WF_vars(AcceptorStep)
  /\ \A i \in Loops : WF_vars(LoopStep(i))
  /\ \A c \in Callers : WF_vars(CallerStep(c))

FairSpec == Spec /\ Fairness

-----------------------------------------------------------------------------
(* The acceptor never sleeps in poll with is_running already false and no  *)
(* wake-up on its way, however shutdown falls between the test of the flag *)
(* and poll, or between two calls of shutdown (acceptor.rs 17-20, 70-88).  *)
AcceptorWillStop ==
  acc = "poll" /\ ~running =>
    "wake" \in edge \/ \E c \in Callers : call[c] \in {"swap", "write"}

Threads == {acc} \cup {loop[i] : i \in Loops}

(* run returns Ok only when all its threads have ended and nothing is left *)
(* behind: no listener, no open connection, no socket in a channel, in the *)
(* acceptor's hands or in a backlog.  When it fails to start there is no   *)
(* listener left either and, under reuse_port, no thread: the loops that   *)
(* run_user_lb has spawned by then run on (engine.rs 160-169, 205-210,     *)
(* 228-262 and 286-291).                                                   *)
CleanEnd ==
  /\ main = "ok" =>
       /\ Threads \cap {"check", "poll", "events", "accept", "select", "send",
                        "made", "running"} = {}
       /\ listening = {}
       /\ \A i \in Loops : conns[i] = {} /\ queue[i] = <<>>
       /\ hand = None
       /\ \A o \in DOMAIN backlog : backlog[o] = {}
  /\ main = "err" =>
       /\ listening = {}
       /\ acc = "none"
       /\ ReusePort => "running" \notin Threads

(* A callback that calls worker::submit always finds the pool under        *)
(* reuse_port.  run_user_lb makes the pool last, so a task may come too    *)
(* early; but in neither mode too late (engine.rs 203-209, 265-290).       *)
TasksFindPool == missed \subseteq (IF ReusePort THEN {} ELSE {"early"})

(* The balancer hands every loop the same number of sockets, up to one:    *)
(* RoundRobin always, LeastConnections as long as no connection ends and   *)
(* the counts it reads include every socket handed out before, so that it  *)
(* falls behind only by the sockets still in the channels (balancer.rs     *)
(* 46-75).                                                                 *)
LoadEven ==
  Policy = "RoundRobin" \/ calm =>
    \A i, j \in Loops : given[i] <= given[j] + 1

(* A shutdown that begins when the handles are in place makes run return,  *)
(* whatever else happens: sockets being accepted, loops that have already  *)
(* stopped, failed or panicked, a second call (engine.rs 104-113).         *)
ShutdownEndsRun == heard ~> (main \in {"ok", "panicked"})

InLimbo(c) ==
  \/ \E o \in DOMAIN backlog : c \in backlog[o]
  \/ c = hand
  \/ \E i \in Loops : \E k \in DOMAIN queue[i] : queue[i][k] = c

(* Every peer that connects is either served by a loop or disconnected: it *)
(* does not stay in a backlog or a channel for ever, although a listener   *)
(* reports an edge only once.  An error of accept other than WouldBlock is *)
(* the exception: it ends accept_loop or accept_process and nothing        *)
(* reports the rest of the backlog again (acceptor.rs 107-128,             *)
(* event_loop.rs 340-370).                                                 *)
PeersAnswered == \A c \in Conns : InLimbo(c) ~> (~InLimbo(c) \/ refused)
=============================================================================
