----------------------------- MODULE WorkerPool -----------------------------
(***************************************************************************)
(* The business worker pool of worker.rs: the global vector of channel     *)
(* senders behind an RwLock, submit, WorkerPool::new and shutdown, and the *)
(* worker threads.                                                         *)
(*                                                                         *)
(* submit keeps the read lock while it waits for room in a bounded         *)
(* channel; new and shutdown take the write lock.  The lock is std's       *)
(* futex RwLock: a waiting writer keeps new readers out.  What a writer    *)
(* does under the lock nobody else can see half done, so it is one step.   *)
(* The global is shared by all pools of the process, so that several       *)
(* pools (two engines, or two runs of one) meet in it.                     *)
(***************************************************************************)
EXTENDS Naturals, Sequences

CONSTANTS
  Clients,   \* threads that call submit: event loops, the application
  Pools,     \* the WorkerPool values the process creates
  None,      \* no senders, no task
  Workers,   \* worker_count
  Cap,       \* capacity of a worker's channel
  Shards,    \* the values of shard_idx the callers use
  Nested,    \* the workers whose tasks call submit themselves
  Panics,    \* a task may panic
  MaxTasks   \* bound of the model: MaxTasks[t] calls of submit by thread t

WorkerIds == Pools \X (0..(Workers - 1))

Threads == Clients \cup WorkerIds

ASSUME WorkerPoolAssumption ==
  /\ None \notin Pools
  /\ Clients \cap WorkerIds = {}
  /\ Workers \in Nat \ {0}
  /\ Cap \in Nat \ {0}
  /\ Shards \subseteq Nat
  /\ Nested \subseteq WorkerIds
  /\ Panics \in BOOLEAN
  /\ MaxTasks \in [Threads -> Nat]

Tasks == [by : Threads, n : Nat, shard : Shards]

VARIABLES
  global,    \* GLOBAL_SENDERS: the pool whose senders are installed
  stage,     \* stage[p]: the life cycle of pool p
  chan,      \* chan[w]: the channel of worker w
  worker,    \* worker[w]: what worker w is doing
  job,       \* job[w]: the task worker w is running
  at,        \* at[t]: where thread t is in submit
  shard,     \* shard[t]: the shard_idx of thread t's call
  calls,     \* calls[t]: how often thread t has called submit
  accepted,  \* history: accepted[p], the tasks sent to the workers of p
  started,   \* history: the tasks begun, with their worker, in order
  finished,  \* history: the tasks whose closure returned
  lost       \* history: tasks dropped with a panicked worker

callers == <<at, shard, calls>>
pool == <<global, stage>>
threads == <<chan, worker, job>>
history == <<accepted, started, finished, lost>>
vars == <<pool, threads, callers, history>>

(* Types; the channels stay within their capacity (worker.rs 39).          *)
TypeOK ==
  /\ global \in Pools \cup {None}
  /\ stage \in [Pools -> {"none", "installing", "up", "taking", "joining",
                          "gone"}]
  /\ chan \in [WorkerIds -> Seq(Tasks)]
  /\ \A w \in WorkerIds : Len(chan[w]) <= Cap
  /\ worker \in [WorkerIds -> {"none", "idle", "busy", "ended", "panicked"}]
  /\ job \in [WorkerIds -> Tasks \cup {None}]
  /\ at \in [Threads -> {"out", "lock", "send"}]
  /\ shard \in [Threads -> Shards \cup {None}]
  /\ calls \in [Threads -> Nat]
  /\ accepted \in [Pools -> SUBSET Tasks]
  /\ started \in Seq([task : Tasks, worker : WorkerIds])
  /\ finished \subseteq Tasks
  /\ lost \subseteq Tasks

Init ==
  /\ global = None
  /\ stage = [p \in Pools |-> "none"]
  /\ chan = [w \in WorkerIds |-> <<>>]
  /\ worker = [w \in WorkerIds |-> "none"]
  /\ job = [w \in WorkerIds |-> None]
  /\ at = [t \in Threads |-> "out"]
  /\ shard = [t \in Threads |-> None]
  /\ calls = [t \in Threads |-> 0]
  /\ accepted = [p \in Pools |-> {}]
  /\ started = <<>>
  /\ finished = {}
  /\ lost = {}

-----------------------------------------------------------------------------
(* The lock.  A thread that waits for room in a channel holds it for       *)
(* reading.                                                                *)

Readers == {t \in Threads : at[t] = "send"}

(* Variant with a fault: shutdown keeps the write lock while it joins.     *)
WriterWaitingToJoin ==
  \E p \in Pools : stage[p] \in {"installing", "taking", "joining"}

WriterWaiting == \E p \in Pools : stage[p] \in {"installing", "taking"}

-----------------------------------------------------------------------------
(* submit.                                                                 *)

(* A worker is in the middle of a task when it submits another.            *)
MaySubmit(t) == t \in WorkerIds => t \in Nested /\ worker[t] = "busy"

Submit(t, s) ==
  /\ at[t] = "out"
  /\ MaySubmit(t)
  /\ calls[t] < MaxTasks[t]
  /\ calls' = [calls EXCEPT ![t] = @ + 1]
  /\ shard' = [shard EXCEPT ![t] = s]
  /\ at' = [at EXCEPT ![t] = "lock"]
  /\ UNCHANGED <<pool, threads, history>>

Return(t) ==
  /\ at' = [at EXCEPT ![t] = "out"]
  /\ shard' = [shard EXCEPT ![t] = None]

(* The read lock; without senders the task is dropped with a message.      *)
ReadLock(t) ==
  /\ at[t] = "lock"
  /\ ~WriterWaiting
  /\ IF global = None
     THEN Return(t)
     ELSE at' = [at EXCEPT ![t] = "send"] /\ UNCHANGED shard
  /\ UNCHANGED <<pool, threads, calls, history>>

InHand(t) == [by |-> t, n |-> calls[t], shard |-> shard[t]]

(* Variant with a fault: tasks are spread over the workers by turns.       *)
SpreadTarget(t) == <<global, calls[t] % Workers>>

Target(t) == <<global, shard[t] % Workers>>

(* The thread is over and its receiver dropped.                            *)
Ended(w) == worker[w] \in {"ended", "panicked"}

(* Variant with a fault: the channel is unbounded.                         *)
SendUnbounded(t) ==
  /\ at[t] = "send"
  /\ ~Ended(Target(t))
  /\ chan' = [chan EXCEPT ![Target(t)] = Append(@, InHand(t))]
  /\ accepted' = [accepted EXCEPT ![global] = @ \cup {InHand(t)}]
  /\ Return(t)
  /\ UNCHANGED <<pool, worker, job, calls, started, finished, lost>>

(* Room in the channel: the task is queued and the lock released.          *)
Send(t) ==
  /\ at[t] = "send"
  /\ ~Ended(Target(t))
  /\ Len(chan[Target(t)]) < Cap
  /\ chan' = [chan EXCEPT ![Target(t)] = Append(@, InHand(t))]
  /\ accepted' = [accepted EXCEPT ![global] = @ \cup {InHand(t)}]
  /\ Return(t)
  /\ UNCHANGED <<pool, worker, job, calls, started, finished, lost>>

(* The receiver is gone: send fails, and submit ignores that.              *)
SendFails(t) ==
  /\ at[t] = "send"
  /\ Ended(Target(t))
  /\ Return(t)
  /\ UNCHANGED <<pool, threads, calls, history>>

-----------------------------------------------------------------------------
(* WorkerPool::new and shutdown.                                           *)

WorkersOf(p) == {w \in WorkerIds : w[1] = p}

(* The workers are running before new asks for the write lock.             *)
New(p) ==
  /\ stage[p] = "none"
  /\ stage' = [stage EXCEPT ![p] = "installing"]
  /\ worker' = [w \in WorkerIds |->
                  IF w \in WorkersOf(p) THEN "idle" ELSE worker[w]]
  /\ UNCHANGED <<global, chan, job, callers, history>>

(* Variant with a fault: a second pool waits until the first has gone.     *)
InstallWaits(p) ==
  /\ stage[p] = "installing"
  /\ Readers = {} /\ global = None
  /\ global' = p
  /\ stage' = [stage EXCEPT ![p] = "up"]
  /\ UNCHANGED <<threads, callers, history>>

(* The senders of a second pool are dropped when new returns.              *)
Install(p) ==
  /\ stage[p] = "installing"
  /\ Readers = {}
  /\ global' = IF global = None THEN p ELSE global
  /\ stage' = [stage EXCEPT ![p] = "up"]
  /\ UNCHANGED <<threads, callers, history>>

Shutdown(p) ==
  /\ stage[p] = "up"
  /\ stage' = [stage EXCEPT ![p] = "taking"]
  /\ UNCHANGED <<global, threads, callers, history>>

(* take(): whoever's senders they are, they are dropped here.              *)
Take(p) ==
  /\ stage[p] = "taking"
  /\ Readers = {}
  /\ global' = None
  /\ stage' = [stage EXCEPT ![p] = "joining"]
  /\ UNCHANGED <<threads, callers, history>>

(* join of every worker, a panicked one included.                          *)
Join(p) ==
  /\ stage[p] = "joining"
  /\ \A w \in WorkersOf(p) : Ended(w)
  /\ stage' = [stage EXCEPT ![p] = "gone"]
  /\ UNCHANGED <<global, threads, callers, history>>

-----------------------------------------------------------------------------
(* The worker threads.                                                     *)

(* The pool's senders exist: in new's vector or in the global.             *)
Connected(p) == stage[p] = "installing" \/ global = p

(* recv or try_recv yields a task, and its closure begins.                 *)
Begin(w) ==
  /\ worker[w] = "idle"
  /\ chan[w] # <<>>
  /\ chan' = [chan EXCEPT ![w] = Tail(@)]
  /\ worker' = [worker EXCEPT ![w] = "busy"]
  /\ job' = [job EXCEPT ![w] = Head(chan[w])]
  /\ started' = Append(started, [task |-> Head(chan[w]), worker |-> w])
  /\ UNCHANGED <<pool, callers, accepted, finished, lost>>

Finish(w) ==
  /\ worker[w] = "busy"
  /\ at[w] = "out"
  /\ worker' = [worker EXCEPT ![w] = "idle"]
  /\ job' = [job EXCEPT ![w] = None]
  /\ finished' = finished \cup {job[w]}
  /\ UNCHANGED <<pool, chan, callers, accepted, started, lost>>

(* A closure that panics unwinds the thread; the receiver and the tasks in *)
(* the channel go with it.                                                 *)
Panic(w) ==
  /\ Panics
  /\ worker[w] = "busy"
  /\ at[w] = "out"
  /\ worker' = [worker EXCEPT ![w] = "panicked"]
  /\ job' = [job EXCEPT ![w] = None]
  /\ chan' = [chan EXCEPT ![w] = <<>>]
  /\ lost' = lost \cup {job[w]} \cup {chan[w][i] : i \in DOMAIN chan[w]}
  /\ UNCHANGED <<pool, callers, accepted, started, finished>>

(* Variant with a fault: a worker stops as soon as the senders are gone.   *)
EndAtOnce(w) ==
  /\ worker[w] = "idle"
  /\ ~Connected(w[1])
  /\ worker' = [worker EXCEPT ![w] = "ended"]
  /\ UNCHANGED <<pool, chan, job, callers, history>>

(* recv fails only when the channel is both disconnected and empty.        *)
End(w) ==
  /\ worker[w] = "idle"
  /\ chan[w] = <<>>
  /\ ~Connected(w[1])
  /\ worker' = [worker EXCEPT ![w] = "ended"]
  /\ UNCHANGED <<pool, chan, job, callers, history>>

-----------------------------------------------------------------------------
Submitting(t) == ReadLock(t) \/ Send(t) \/ SendFails(t)

Managing(p) == Install(p) \/ Take(p) \/ Join(p)

Working(w) == Begin(w) \/ Finish(w) \/ End(w)

Next ==
  \/ \E t \in Threads : \E s \in Shards : Submit(t, s)
  \/ \E t \in Threads : Submitting(t)
  \/ \E p \in Pools : New(p) \/ Shutdown(p) \/ Managing(p)
  \/ \E w \in WorkerIds : Working(w) \/ Panic(w)

Spec == Init /\ [][Next]_vars

(* Threads inside submit, new and shutdown keep going and closures return; *)
(* nobody has to call anything.  One waiter of a lock or of a channel is   *)
(* not passed over for ever, which weak fairness expresses here because    *)
(* calls are finitely many.                                                *)
Fairness ==
  /\ \A t \in Threads : WF_vars(Submitting(t))
  /\ \A p \in Pools : WF_vars(Managing(p))
  /\ \A w \in WorkerIds : WF_vars(Working(w))

FairSpec == Spec /\ Fairness

-----------------------------------------------------------------------------
(* Tasks that one thread submits with one shard_idx are run one after the  *)
(* other in the order of the submit calls, each at most once: the later    *)
(* one begins when the earlier one has returned or its worker has died.    *)
(* This holds within a pool: one that succeeds another does not wait for   *)
(* the other's backlog (worker.rs 21-23 and 43-48).                        *)
ShardOrder ==
  \A i, j \in DOMAIN started :
    /\ i < j
    /\ started[i].worker[1] = started[j].worker[1]
    /\ started[i].task.by = started[j].task.by
    /\ started[i].task.shard = started[j].task.shard
    => /\ started[i].task.n < started[j].task.n
       /\ started[i].task \in finished \cup lost

(* When shutdown returns, every task the pool ever accepted has been run,  *)
(* except those a panicked worker took with it: also when callers were     *)
(* blocked on full channels, and when another pool's shutdown took the     *)
(* senders first (worker.rs 64-78).                                        *)
ShutdownDrains ==
  \A p \in Pools :
    stage[p] = "gone" => accepted[p] \subseteq finished \cup lost

(* A task of worker w has called submit and waits for worker v to take a   *)
(* task from its full channel: to have room for its own, or to get the     *)
(* lock, behind a writer that waits for a caller who waits for that room.  *)
WaitsFor(w, v) ==
  /\ Len(chan[v]) = Cap
  /\ \/ at[w] = "send" /\ Target(w) = v
     \/ at[w] = "lock" /\ WriterWaiting /\ \E t \in Readers : Target(t) = v

(* Tasks wait for one another's workers, or one for its own, in a circle.  *)
Entangled ==
  \E W \in SUBSET WorkerIds :
    W # {} /\ \A w \in W : \E v \in W : WaitsFor(w, v)

(* Every call of submit returns, however full the channels are and         *)
(* whatever the pools do meanwhile, unless tasks wait for their own        *)
(* workers in a circle (worker.rs 11-27).                                  *)
SubmitReturns ==
  \A t \in Clients \cup Nested :
    (at[t] # "out") ~> (at[t] = "out" \/ Entangled)

(* shutdown returns, with the same exception: the write lock is obtained   *)
(* although callers hold the read lock while they wait, tasks that submit  *)
(* while shutdown joins get through, and the workers end (worker.rs        *)
(* 64-78).                                                                 *)
ShutdownReturns ==
  \A p \in Pools :
    (stage[p] = "taking") ~> (stage[p] = "gone" \/ Entangled)
=============================================================================
