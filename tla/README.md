# Verification of rnet

rnet is a reactor library for TCP and Unix stream servers.  An engine starts
several event loops, each on a thread of its own with its own epoll instance;
connections belong to one loop for their whole life, and everything another
thread wants from a connection is sent to that loop as a command.  This
directory holds TLA+ modules that model the library, the TLC instances that
check them, and TLAPS proofs.  Source references are to the Rust
files under `src/`; the repository has no prose documentation, so the intended
behaviour comes from the code, its tests, its comments and its examples.

## Inventory

| Component | State | Operations | Correct when | Module |
|---|---|---|---|---|
| Command path (`event_loop.rs` 40-94, 216-338; `poller.rs` 74-99; `command.rs`) | two unbounded channels per loop, the flag `awoken`, the eventfd | `trigger`, `Waker::wake`/`reset`, the drain in `process_command` | no command waits behind a sleeping loop; High commands keep their order; the batch limit leaves nothing behind | CommandQueue, Mailbox |
| Event loop (`event_loop.rs` 96-653), Poller (`poller.rs` 22-72), EventHandler | slab, pool of recycled connections, `conn_count`, epoll interests | one handler per command, `accept_process`, `process_io`, `read_socket`, `write_socket`, `register`, `close_connection`, ticks, `shutdown` | connections are isolated though slots are reused; no edge is lost; count and `on_close` agree with the slab | EventLoop |
| Connection, input (`connection.rs` 117-296, 411-443), Codec | `in_buffer`, `io_buffer` | `next_contiguous`, `next_vectored`, `peek`, `discard`, `Read`, `next_message`, `reset` | the two buffers are one byte stream, of the present socket only | InboundBuffer |
| Connection, output (`connection.rs` 298-403, 445-588) | `out_buffer` | `write`, `write_bytes`, `write_vectored`, `write_vectored_bytes`, `flush`, `send` | bytes reach the wire once and in order | OutboundBuffer |
| Engine, EngineHandler (`engine.rs`), Acceptor (`acceptor.rs`), Balancer (`balancer.rs`) | two `OnceLock`s, threads, `is_running`, a waker, `next` | `build`, `run_user_lb`, `run_reuse_port`, `shutdown`, the acceptor's loop, `select` | after shutdown every thread is joined; every accepted peer is served or disconnected; load is spread as promised | Engine |
| WorkerPool (`worker.rs`) | global senders under an RwLock, bounded channels | `submit`, `new`, `shutdown` | tasks of a shard run once and in order; nobody waits for ever | WorkerPool |
| Asynchronous answers (`examples/async-echo-rnet.rs`, `submit.rs`, `chat-room.rs`; `send_command`) | the room's members per loop, closures in the pool, AsyncWrite commands | `on_open`, `on_traffic`, `on_close`, the closures | answers come, in order and without gaps | AsyncReply |
| Gfd (`gfd.rs`) | `MONO_SEQ` | `new`, the accessors, the comparison | an answer finds its own connection or nobody | Gfd |
| Options (`options.rs`), NetworkAddress (`socket_addr.rs`), Listener (`listener.rs`), CPU topology | the options, socket files, listeners | the builder, `normalize`, `from_str`, `get_core_ids`, `bind` | sizes are not rounded down; loops sit on cores of their own; every address is served; restarts work | Startup |

The components meet in few places.  `accept_loop` and the application push
commands into a loop's channels and wake it; workers answer with `AsyncWrite`;
the loop pushes `Read`, `Write` and `Close` to itself.  The balancer reads
`conn_count`.  Callbacks run on the loop's thread in the middle of its handlers
and may write, close, submit a task, or end the loop.

What is hard here: the flag that filters wake-ups, with two channels behind it;
edge-triggered events together with batch limits, so that the loop itself has to
remember unfinished work; slots, `Connection` values and commands that outlive
the connection they were made for; partial writes over lists of chunks; a lock
that is held while a thread waits for room in a channel; and the start and end
of the threads.  `PROJECT.json` lists the hazards by line.

## Modules

**CommandQueue** is the command path.  Every access to shared state is an
action: the length test of `trigger` (`Trigger`), the push (`SendUrgent`,
`SendCommon`), the two halves of `Waker::wake` (`Swap`, `WriteEventfd`), the two
`is_empty` reads (`CheckUrgent`, `CheckCommon`), `epoll_wait` (`Poll`,
`PollOther`, `PollInterrupted`), the two `try_recv`s (`DrainUrgent`,
`UrgentEmpty`, `DrainCommon`), and the reset at `WAKE_TOKEN` (`HandleWake`).
`edge` is the eventfd as edge-triggered epoll sees it.  Commands are records of
sender, number and kind.  `Stop` drops the receivers, after which sends fail.
The eventfd write is assumed to succeed (mio retries the one error it has): if
it failed, `awoken` would stay true and the loop would not be woken again.
The flag's operations are SeqCst and the channels synchronise, so
interleaving semantics is adequate.

**Mailbox** is what the command path promises to its users, without channels,
flag or eventfd: a command is executed at most once, urgent ones of a thread in
the order they were posted, others in any order, until the loop ends and drops
the rest.  CommandQueue implements it (`ImplementsMailbox`) under the mapping in
which the commands of both channels wait, the executed ones are done, and the
mailbox is open until the loop has stopped; only `SendUrgent`, `SendCommon`,
the drains and the end of the loop are steps of the mailbox, all else stutters.

**EventLoop** is one loop with its connections.  A buffer is the set of sockets
whose bytes it holds, which is what isolation is about.  `sk` is the kernel's
side: unread chunks, end of stream, error, room in the send buffer, the interests
and whether an edge is due.  `pc` follows `run_loop`: `poll`, then `cmd`
(`process_command`), `events`, with `write`, `read`, `rereg` for the parts of
`process_io`, then `tick`.  Reads of the socket are one step per chunk, so peers
act between them.  Compound handlers are built from records that carry a
connection, its socket and the channels through a step (`Now`, `Callback`,
`WriteOutcomes`, `FlushOutcomes`, `Reregistered`, `CloseAs`).  The initial `tick`
stands for the call of `on_tick` before the loop.  The slab may pick any
free slot; `closed` in `Connection` is never set and is left out; the
channels are used atomically here (CommandQueue shows why the loop finds what is
in them).  `Fail` is an error passed on with `?`.  Removing a registered socket
from epoll is assumed to succeed.  `scene` holds the size of the slab, what
the handler's callbacks may do, the commands application threads send, what peers
may do and `reuse_port`.

**InboundBuffer** and **OutboundBuffer** look at one connection's bytes, numbered
in order.  The calls of InboundBuffer are operators that return what the handler
gets and what is left in the two buffers, followed branch by branch from the
code.  `stage` is where the connection is: idle, in `on_traffic`, or closing.
`on_traffic` that returns None stashes the rest (`TrafficDone`); Close or Shutdown
leave `io_buffer` as it is for `on_close` and for the pool (`CloseConnection`),
and `Reset` clears what buffers there are for the next socket, whose bytes are
numbered from one again.  OutboundBuffer lets the kernel take any number of the bytes offered, block
or fail at each write.  An error other than WouldBlock and Interrupted ends the
connection's output: the kernel reports it again on each later write.

**Engine** is the life of the process.  `main` walks through `build` and `run`
in the order of the code, one step per thing another thread can notice: binding,
each `EventLoop::new` (which `run_user_lb` also spawns and `run_reuse_port`
keeps), the two `OnceLock`s (`handles`), the acceptor's thread, the pool, the
joins in their order.  The acceptor's `run` is split where shutdown can fall: the
test of `is_running`, `poll`, each event, each `accept`, the balancer's
choice (one step per count for LeastConnections) and the hand-over.
`EngineHandler::shutdown` is a step per access: the flag, the two halves of the
waker, the handles, each loop's channel.  The loops are reduced to what the
engine sees: running or not, their channel, their connections and their count.
Under `reuse_port` they also have the listeners: a peer that connects makes the
edge of a loop's listener due (`ready`), the loop's poll takes it once
(`LoopListener`), and `accept_process` goes through the backlog
(`LoopAccept`) until accept would block or fails (`LoopWouldBlock`,
`LoopAcceptFails`); commands wait meanwhile.  Several listeners of one owner are
taken together.
`scene` holds the options of the program and what its environment may do: which
peers connect, which threads call `shutdown`, and which things fail.

**WorkerPool** is `worker.rs`.  `submit` takes the read lock (`ReadLock`), keeps
it while it waits for room (`Send`, `SendFails`), and a waiting writer keeps
readers out, as std's RwLock does on Linux.  Pools share the global: the senders
of a second pool are dropped when `new` returns, and its `shutdown` takes the
first one's.  Tasks may submit and may panic.

**AsyncReply** composes WorkerPool, whose callers are now the loop threads, with
the promise of Mailbox for the commands the closures send, into the two patterns
of the examples: the echo and the chat room.  The broadcast goes out shard by
shard, under one mutex at a time.  The chat room's heartbeat (`on_tick`) is left
out.

**Gfd** packs loop, slab key and sequence number into fields whose widths are
parameters, and follows `send_command` and the gfd check of `process_command`
back to a connection.

**Startup** runs the builder with its rounding in words of `WordBits` bits, the
parsing of addresses (a text is a scheme, a host and a port, so the cases of
`from_str` are kept and characters are not), `get_core_ids`, and the binding of
listeners, address by address and loop by loop, with what an earlier run left:
socket files, and connections in TIME_WAIT.  What the kernel refuses is in
`InUse`.  The code does not look at the result of `remove_file`; a start that ends
because an old socket file cannot be removed is one of those that fail for a
reason outside the program (`BindFails`), not a refused one.

The theorems about a module `M` are in `MProofs`: **CommandQueueProofs**,
**EventLoopProofs**, **InboundBufferProofs**, **OutboundBufferProofs**,
**EngineProofs**, **AsyncReplyProofs**, **GfdProofs** and **StartupProofs**.
Those about WorkerPool, which AsyncReply extends, come first in
AsyncReplyProofs.
The MC modules give constants their values, and bound or combine instances where
a run has several.

Definitions headed "Variant with a fault" are mutated forms of the definition
that follows them; no specification uses them.  Replacing the definition by its
variant makes the property named in `PROJECT.json` fail, which shows that the
property depends on that piece of code.

## Runs

| Run | Instance | Shows |
|---|---|---|
| `queue` | an application thread (2 commands), the acceptor (1), the loop itself (1); urgent capacity 1, batch 2; under `FairSpec` | `NoLostWakeup`, `HighInOrder`, `TypeOK`, `CommandsExecuted`, `ImplementsMailbox` |
| `slots` | one slot for two sockets, with peers that send, close, reset, block, one AsyncWrite with any gfd ever issued, handlers that write, close and close again; and two slots under `reuse_port`, with ticks that write or end the loop, Close and Shutdown commands, `on_open` ending the loop | `OutputIsolation`, `InputIsolation`, `CountMatchesSlab`, `ClosedOnce` |
| `edges` | one connection, 4 chunks, 2 per batch, under `FairSpec` | `NoStrandedInput`, `OutputArmed`, `InputServed`, `TypeOK` |
| `inbound` | 12 bytes per socket in reads of up to 4, requests of 0, 1, 2, 3, 5 and everything, closes and resets at any point | `StreamIntact`, `PeekAgrees`, `VectoredAgrees`, `TypeOK` |
| `codec` | the handler of `examples/json-codec.rs` | `MessagesDecoded` is violated |
| `outbound` | 8 bytes in calls of one to three slices with empty ones, 2 slices per system call, batch 3, at most 6 chunks | `WireInOrder`, `TypeOK` |
| `zero_write` | the same | `ZeroMeansClosed` is violated |
| `pool` | two pools of two workers, channels of capacity 1, a client with 3 calls, tasks of both workers that submit (2 calls and 1), panics; under fairness | `TypeOK`, `ShardOrder`, `ShutdownDrains`, `SubmitReturns`, `ShutdownReturns` |
| `engine` | two loops; six scenes: both modes and policies, up to two peers and two callers of `shutdown`, every kind of failure; under `FairSpec` | `TypeOK`, `AcceptorWillStop`, `CleanEnd`, `TasksFindPool`, `LoadEven`, `ShutdownEndsRun`, `PeersAnswered` |
| `async_reply` | the chat room with a member on each of two loops (2 and 1 messages), and the echo with 4 requests; shards of capacity 1; under fairness | `RepliesInOrder`, `RepliesComplete`, `RequestsAnswered` |
| `gfd` | 3 loops and 3 keys where one bit is for each, one bit of sequence number, 4 registrations | `RightConnection`, `AnswerReaches` |
| `startup` | all sizes of a 4-bit word in up to two builds; 12 address lists, both reuse options, 2 or 3 loops or one per cpu, 3 topologies of 4 cpus, 3 starts | `SizesKept`, `LoopsPlaced`, `EveryAddressServed`, `RefusedForCause` |

Bounds.  The limits of the code (1024 urgent commands, 256 per batch, 1024 slices,
1 MiB per read, the capacity of a worker's channel) become 1 to 3 so that each is
reached; the arguments about them compare with the limit and do not depend on its
value.  Isolation is a relation between two users of one slot, accounting one
between two slots: two sockets show both.  A stale command needs one close and
one new registration, for which `slots` has room.  In `edges` four chunks exceed
a batch and leave a second batch that is not full.  In `pool` three calls are
what it takes to have a task running, one queued and one caller blocked, and two
calls of tasks of one worker and one of the other let tasks fill and wait for each
other's channels.  A second pool and a third call are not combined, and the second
nested call is only made with one pool, without panics and after the client's
calls to workers 0, 0 and 1 (`Bounded` in MCWorkerPool).  In
`async_reply` the echo needs four requests until a loop is blocked while a
worker answers it.  In `engine` two loops are enough for one to end while another
goes on, and two callers of `shutdown` meet at the acceptor's waker; the scenes
keep the failures apart from the second peer.  In `gfd` the fields are narrower
than the numbers, and the sequence wraps twice.  In `startup` nothing after
`build` looks at the sizes, so they are varied on their own.  `MaxQueue` bounds
the Close and Write commands the loop sends itself; `MaxApp`, `MaxCmds`, `MaxRx`,
`MaxBytes`, `MaxChunks`, `MaxTasks`, `MaxMsgs`, `MaxConns`, `MaxBuilds` and
`MaxRuns` bound the environment.  The cap of 1024 events per poll is not
modelled: epoll keeps what does not fit.

All configurations disable the deadlock check: a loop that has stopped and a
model whose inputs are used up really have no next step.  That threads do not
wait for each other is said by the liveness properties instead.

Symmetry is used in `slots`, over sockets and over the two slots, which the
specification treats alike and no temporal property mentions.

Fairness.  A thread that can go on does so: the loop (`LoopStep`, since
`epoll_wait` returns when it has something to report), a sender inside `trigger`,
the main thread inside `run`, the acceptor, a caller inside `shutdown` or
`submit`, a worker with a task.  Closures return.  Weak fairness per thread is
enough for lock and channels because the calls in an instance are finitely many,
so nobody is overtaken for ever.  Nobody has to send, connect, call `shutdown` or
return `Action::Shutdown`, no peer has to act, no wait has to time out and nothing
has to fail.

### Findings

- `codec`: `next_message` decodes `in_buffer`, but the data `on_traffic` is called
  for is in `io_buffer` and is moved only after the callback returns
  (`connection.rs` 289-296, `event_loop.rs` 531-546).  A handler like the one in
  `examples/json-codec.rs`, whose loop is to echo the message, answers a message
  only when the next data arrive.
- `zero_write`: an empty slice that was queued (an empty write behind a backlog,
  or an empty slice among others in a write that would block) may be
  offered alone later; the socket returns `Ok(0)` and `process_write` and
  `flush` take the connection for closed (`event_loop.rs` 608,
  `connection.rs` 507-512).

Seen without a run: `from_str` has its `udp` arms commented out, so
`test_normalize_udp` and `test_normalize_mixed` (`options.rs` 499-532), which
unwrap the result for a `udp://` address, panic; `Startup` rejects the scheme as
the code does.

### Observed limits of the properties

- `OutputArmed` exempts a backlog made by `on_open`, `on_tick` or by `on_traffic`
  when it runs from `Command::Read`, marked by the ghost field `loose`: these
  paths do not reregister.  Without the exemption TLC finds a backlog that waits
  for some other event of the connection.
- Commands that carry a slab key (`Close`, `Read`, `Write`) act on whoever holds
  the slot.  A stale `Close` closes the next connection; the modules contain this
  behaviour and the runs show what holds in spite of it.
- When a loop fails, `on_close` is not called for its connections, which it leaves
  in the slab; `ClosedOnce` speaks of connections that leave the slab and of loops
  that shut down.
- `ShutdownEndsRun` is about a shutdown that begins when the handles are set.  One
  that comes earlier finds no handle and is lost, as the code has it.  After
  `Action::Shutdown` alone, `run` goes on waiting for the other threads.
- `PeersAnswered` exempts what follows an error of `accept` (`refused`), in the
  acceptor or in a loop: the listener's edge is used up and the rest of the backlog
  waits for the next peer.
- `CleanEnd` asks for no thread after a failed start only under `reuse_port`:
  `run_user_lb` leaves the loops it has spawned running.
- `TasksFindPool` allows "early" under user balancing, where the pool is made
  after the loops and the acceptor have started.
- `SubmitReturns` and `ShutdownReturns` exempt `Entangled`: a set of workers whose
  tasks submit and each wait for a worker of the set to take something from its
  full channel.  A task that submits to its own full shard is such a circle, two
  that submit to each other's are one, and a task may also wait for the lock,
  behind a writer that waits for a blocked caller.  TLC finds the circles through
  one and through two workers when the exemption is narrowed; with it, every call
  of the instance returns.
- `RightConnection` ends where `MONO_SEQ` has gone round between two
  registrations, `AnswerReaches` at loops and keys that the fields cannot name.
- `SizesKept` exempts sizes whose rounding overflows; there `build` panics or,
  without overflow checks, yields zero.
- `EveryAddressServed` excludes a list with the same path twice: the second
  listener removes the socket file of the first.

## Proofs

The theorems hold for all values of the constants: any number of threads, loops,
workers, sockets and slots, any limits, any set of scenes.  Each invariant is
proved with one step per action of the next-state relation, and what several
actions share (what `Append`, `Tail` or `Cardinality` do, what a close or a
registration leaves) is a lemma.

Assumptions.  Each module has one about its constants (`CommandQueueAssumption`
and so on): limits and bounds are naturals, those the code divides by or counts
down from are not zero, and the names of different things differ.  TLC evaluates
them in the runs.  Besides:

- `NoneAssumption` of EventLoop and two conjuncts of `EngineAssumption` say that
  the value for "nothing" is no Connection and no socket, and that the Shutdown
  command is no socket: `Option` and `Command` are tagged in the code.
- `StartupAssumption` also says that core_affinity gives a list of numbers and
  that each topology file holds a number (`Unreadable` where there is none).
- `AsyncReplyAssumption` says that different loops are different threads and that
  the loops' numbers are shards: each EventLoop is moved into a thread of its own,
  and the examples submit with `event_loop_index`.
- `PowersPositive` (Gfd) and `PowersGrow` (Startup) state that a power of two is
  positive and that powers grow with the exponent.  They are true of all numbers;
  the provers know no exponentiation and cannot do the induction.

### CommandQueue

- `TypeCorrect`: the inductive invariant adds `BudgetLeft`, that the `try_recv` of
  the common channel happens within the batch limit.
- `WakeupNotLost`: `NoLostWakeup` is not inductive, since it does not say why a
  sender that found `awoken` set need not write.  `WakeInv` does: `FlagBacked` (a
  set flag has an eventfd write, an edge or an unhandled wake event behind it),
  `WakeHandled` (a wake event not handled yet is in the batch the loop is working
  on, so before the next sleep) and `SleepAnnounced` (a command that arrived
  behind the `has_pending` test has its sender before the swap, or the flag is
  set).
- `HighOrdered`: `OrderInv` says that the executed commands and the urgent channel
  are each in order for every thread, that the first come before the second, that
  the common channel has no High command, and that everything anywhere was
  numbered before what is being sent now.
- `MailboxImplemented`: `Spec => ImplementsMailbox`.  Mailbox has a set of pending
  commands where the code has two channels, so a step that takes one command out
  of a channel takes it out of the set only if it is there once.  `NoDuplicates`
  (each channel has its commands once, and no command is in both) says that, and
  `OrderInv` gives the order Mailbox asks of the High ones.

### EventLoop

`Inv` is one invariant for the first five theorems, since a slot's user, its bytes and
its place in the count change together.  `OwnInv`: a connection in the slab has an
open socket, holds only bytes of it in its three buffers, and its gfd was issued
for that socket and slot.  `UniqueInv`: no two slots have one socket, and every
open socket is in a slot.  `CountInv`: `conn_count` is the number of live slots.
`ClosesInv`: `on_close` belongs to the passage from open to closed: it has been
called once for a closed socket whose connection was kept and never for another,
and nothing was kept for a socket that is still to be registered.  `SockInv`:
what a socket has received and what is left to come stay within the bound.
`QueueInv`: a socket is in at most one Register command and then not in the slab,
so that no registration makes a second owner, and a stale gfd in an AsyncWrite was
once issued.  `LoopInv`: the operation under way has a slot, and a stopped loop
has no connection.

- `TypeCorrect`, `OutputIsolated`, `InputIsolated`, `CountCorrect`, `ClosesOnce`
  follow: an AsyncWrite passes the gfd check only at the connection whose gfd it
  carries, and that one's socket is the one the gfd was issued for.  The steps on
  connections (callback, reregister, close, register) are treated once each, for
  all actions that contain them.
- `InputNotStranded` and `OutputStaysArmed`: the two properties speak only of a
  loop about to sleep and say nothing of how it gets there, so neither is
  inductive.  `DueInv` says in every state of a loop that has not ended what
  unfinished work rests on: input at a socket has an edge, an event of the
  batch in hand, a read under way or before it in `process_io`, or a queued Read
  (`InputDue`); a backlog has write interest and, with room, an edge, or the like
  visit by the writing part, or a queued Write (`OutputDue`).  The batch is
  empty when the loop polls or ticks, so at `epoll_wait` only the edge and the
  command are left, which is what the properties ask for.  A step is split into
  what it does to its own connection and to the others: no step takes a
  command or an event of another slot away (`Others`, `QueueKept`), and a
  callback may add to a backlog but leaves the socket's input and interests alone
  (`Mild`).  `DueInv` was checked with TLC on the instances of `slots` and
  `edges` before it was proved.

### InboundBuffer

- `StreamStaysIntact` with `TypeCorrect`: the two are inductive together.  Each
  call takes a prefix of the concatenation of the two buffers; the laws of
  concatenation and of cutting a sequence are lemmas.  That `io_buffer` is absent or
  empty between reads is what keeps a read from overwriting bytes: after a stash
  it is absent, after `reset` at most empty, and a call only makes it shorter.
- `PeekTruthful` and `VectoredTruthful` are about the calls and not the steps:
  `peek` and `next_contiguous` agree by their definitions in all states,
  `next_vectored` with them wherever the types hold.

### OutboundBuffer

- `WireStaysInOrder` with `TypeCorrect`: inductive together, given what the
  operators compute.  `FlattenSeq` joins chunks by a function defined by itself;
  `ChainExists`, `ChainUnique` and `FlattenAppend` show that it exists and what
  one chunk more adds, `FlattenCat` that chunks behind chunks add theirs.  From
  these, `SlicesBytes` (a call's slices hold the next bytes in order),
  `RemainingBytes` (what a partial write of a call keeps is what comes after the
  bytes taken), `AdvancedBytes` (the same for pop and advance, at the chunk in
  which the last byte taken lies) and `OfferedBytes` (a write of the first
  slices puts the next bytes on the wire).  Each is an induction over the
  slices; the library's induction theorems cannot be used, so `Climb` states
  induction for the numbers of a set and rests on well-foundedness.

### WorkerPool

- `TypeCorrect`: with `SubmitInv`, a caller that holds the read lock has found
  senders that no writer can take from it meanwhile; `BusyInv`, a busy worker has
  a task.
- `ShardsOrdered`: `OrderInv` has the order of `started` and of the channels, and
  between them: `ChannelOrder` (what waits at a worker belongs there, is younger
  than what waits before it and than all that worker has begun), `StartedOrder`
  (all but the last task of a worker is over) and `NoWorkersYet`.  A thread has
  one task in hand at a time, which is younger than all its others.
- `ShutdownDrained`: `DrainInv` says that an accepted task is over, in a channel
  of its pool or in a worker's hands (`AcceptedKept`), that an ended worker leaves
  an empty channel (`EndedEmpty`; a panic loses its channel's tasks, which are
  counted as lost) and that the workers of a pool that is gone have ended
  (`GoneEnded`).

### Engine

- `TypeCorrect`: `conn_count` is a natural because it is never less than the
  number of connections (`CountInv`); the socket the acceptor has in hand and the
  life of its thread are `HandInv` and `AcceptorUp`.
- `AcceptorStops`: `WakeInv` is the argument of the command path for the
  acceptor's flag, which is never reset: whoever set it has written or will.
- `EndsClean` and `PoolFound`: `LifeInv` says that threads are joined in order and
  stay ended (`JoinedInv`), that the pool lives from before the first loop under
  `reuse_port` until all threads have ended (`PoolInv`), that a listener belongs
  to a thread that has not ended (`ListenInv`) and that what is gone has left
  nothing behind (`EmptyInv`).
- `DealtEvenly`: `RotationInv` says that after `next` sockets the loops before
  `next % N` are one ahead; for LeastConnections, `CalmInv` says that what a loop
  was given is in its count, in its channel or about to be sent to it, and
  `LeastInv` that the counts read so far are what the loops were given.

### AsyncReply

The state is WorkerPool's and that of the closures and mailboxes, and the proofs
use the invariants of WorkerPool.  The argument is that all tasks of a
loop go to one worker, which begins them in order; so what has been said to a
shard was said by an earlier task.

- `RepliesOrdered`: `BodyOrder` (what the closures of a loop captured is in the
  order of the requests), `OwnTasks` (tasks come from the loops, each for its own
  shard), `BusyLast` (a worker is busy with what it began last), `Sources` (what
  is in a mailbox or has arrived comes from a closure that has dealt with that
  loop) and `MailOrder` (what has arrived, and then what is on its way, is in
  order).
- `RepliesWhole`: with `AcceptedKnown` (an accepted task waits or has been begun)
  and `DealtWith` (once a closure has dealt with a shard, its message has arrived
  at each open connection there that is older than the message, or is on its way).  A
  later message that arrives shows that the earlier task is over, and `MailOrder`
  that its message is not behind.

### Gfd

- `AnswersRightConnection` and `AnswersReach`: `Counted` (the sequence numbers are
  the numbers of the registrations, modulo 2^SeqBits), `Placed` (a connection's
  name says where it is) and `OwnFd` (nobody else gets the descriptor of an open
  connection).  Two names with one sequence number are a multiple of 2^SeqBits
  apart.  The lemmas are about numbers of two digits and remainders.

### Startup

- `AllServed` and `RefusalsExplained`: `AddressesFit` (what `normalize` leaves),
  `Divided` (a binding is done or still to do), `FilesOwn` (a socket file is that
  of its listener) and `LingerOld` (TIME_WAIT is left by an earlier start).
- `SizesStay`: `SizesInv` says which sizes a builder starts from.  That rounding
  up gives the least power of two not below is shown by taking the least
  exponent, by well-foundedness.
- `LoopsStayPlaced`: `Selected` says what `get_core_ids` has when it has looked
  at the first cpus (no two with one key, at most as many as asked for, and, as
  long as they are fewer, one for every key seen), shown cpu by cpu with
  `Climb`; `KeysCounted` turns different keys into a number of cores, and
  `PlaceInv` keeps the placement from `run` on.

### Only model-checked

- All liveness (`CommandsExecuted`, `InputServed`, `SubmitReturns`,
  `ShutdownReturns`, `ShutdownEndsRun`, `PeersAnswered`, `RequestsAnswered`),
  which TLAPS does not treat.
- The two violations under Findings.

Every invariant of a passing run, and the refinement of Mailbox, is stated by a
theorem.

## Not modelled

- Socket only passes calls on to TcpStream or UnixStream; the crate root only
  re-exports.
- Of Listener, the socket options other than the two reuse options: they reach
  the kernel and nothing else; that setting them may fail is modelled.  Port 0,
  with which every loop binds a port of its own under `reuse_port`.
- `Display` and the `TryFrom` conversions of NetworkAddress, `Gfd::validate`
  (no caller), `on_shutdon` (never called), `EngineBuilder::load_balancer`
  (its value is not used).
- A second call of `run` on one Engine, which panics under user balancing, a
  machine on which no core is found, and the wrap of `RoundRobin.next` at 2^64.
- What codecs do inside, and the examples that are echo servers of one callback.

## Plan

1. *Done:* CommandQueue with its proofs, EventLoop, InboundBuffer,
   OutboundBuffer.
2. *Done:* Engine with Acceptor and Balancer, WorkerPool, AsyncReply, Gfd,
   Startup; Mailbox and the refinement.
3. *Done:* the proofs of CommandQueue with the refinement of Mailbox,
   EventLoop, InboundBuffer, OutboundBuffer, WorkerPool, Engine, AsyncReply, Gfd
   and Startup.
4. Left: the liveness properties, which stay with TLC, and the parts under "Not
   modelled".
