-------------------------- MODULE AsyncReplyProofs --------------------------
(***************************************************************************)
(* Proofs about WorkerPool, and then about AsyncReply, which extends it:   *)
(* for any number of loops, connections, pools, workers, callers and       *)
(* requests, both handlers, any capacity of the channels and any use of    *)
(* shards.  AsyncReply relies on what the pool promises.                   *)
(***************************************************************************)
EXTENDS AsyncReply, FiniteSetTheorems, TLAPS


-----------------------------------------------------------------------------
(* Types.  A caller inside submit has a shard, and one that holds the read *)
(* lock has found senders, which no writer can take from it meanwhile; a   *)
(* busy worker has a task.                                                 *)
SubmitInv ==
  \A t \in Threads :
    /\ at[t] # "out" => shard[t] \in Shards
    /\ at[t] = "send" => global \in Pools

BusyInv == \A w \in WorkerIds : worker[w] = "busy" => job[w] \in Tasks

TypeInv == TypeOK /\ SubmitInv /\ BusyInv

(* The channel submit picks is one of the installed pool.                  *)
LEMMA TargetType ==
  ASSUME TypeInv, NEW t \in Threads, at[t] = "send"
  PROVE  /\ Target(t) \in WorkerIds /\ InHand(t) \in Tasks
         /\ Target(t)[1] = global /\ Target(t)[2] = InHand(t).shard % Workers
         /\ global \in Pools
<1>1. shard[t] \in Shards /\ global \in Pools /\ calls[t] \in Nat
  BY DEF TypeInv, SubmitInv, TypeOK
<1>2. shard[t] \in Nat /\ Workers \in Nat \ {0}
  BY <1>1, WorkerPoolAssumption
<1>3. shard[t] % Workers \in 0..(Workers - 1)
  BY <1>2
<1>4. InHand(t) \in Tasks /\ InHand(t).shard = shard[t]
  BY <1>1 DEF InHand, Tasks
<1> QED
  BY <1>1, <1>3, <1>4 DEF Target, WorkerIds

(* A channel with one task more, and a channel without its first.          *)
LEMMA AppendElements ==
  ASSUME NEW S, NEW q \in Seq(S), NEW c \in S
  PROVE  /\ Append(q, c) \in Seq(S) /\ Len(Append(q, c)) = Len(q) + 1
         /\ DOMAIN q = 1..Len(q) /\ Len(q) \in Nat
         /\ DOMAIN Append(q, c) = 1..(Len(q) + 1)
         /\ \A i \in 1..Len(q) : Append(q, c)[i] = q[i]
         /\ Append(q, c)[Len(q) + 1] = c
  OBVIOUS

(* The elements of a sequence without the first.                           *)
LEMMA TailElements ==
  ASSUME NEW S, NEW q \in Seq(S), q # <<>>
  PROVE  /\ Tail(q) \in Seq(S) /\ Len(Tail(q)) = Len(q) - 1
         /\ DOMAIN q = 1..Len(q) /\ Len(q) \in Nat
         /\ 1 \in DOMAIN q /\ Head(q) = q[1] /\ Head(q) \in S
         /\ DOMAIN Tail(q) = 1..(Len(q) - 1)
         /\ \A i \in DOMAIN Tail(q) : i + 1 \in DOMAIN q /\ Tail(q)[i] = q[i + 1]
  OBVIOUS

(* An element of a sequence.                                               *)
LEMMA SeqElement ==
  ASSUME NEW S, NEW q \in Seq(S), NEW i \in DOMAIN q
  PROVE  q[i] \in S
  OBVIOUS

(* The initial state is well typed.                                        *)
LEMMA TypeInit == Init => TypeInv
<1> SUFFICES ASSUME Init
             PROVE  TypeInv
  OBVIOUS
<1>1. <<>> \in Seq(Tasks) /\ <<>> \in Seq([task : Tasks, worker : WorkerIds])
      /\ Len(<<>>) = 0
  OBVIOUS
<1>2. 0 <= Cap
  BY WorkerPoolAssumption
<1>3. TypeOK
  BY <1>1, <1>2 DEF Init, TypeOK
<1> QED
  BY <1>3 DEF Init, TypeInv, SubmitInv, BusyInv

(* Every step keeps the types.                                             *)
LEMMA TypeStep == TypeInv /\ [Next]_vars => TypeInv'
<1> SUFFICES ASSUME TypeInv, [Next]_vars
             PROVE  TypeInv'
  OBVIOUS
<1> USE DEF pool, threads, callers, history
<1>1. ASSUME NEW t \in Threads, NEW s \in Shards, Submit(t, s)
      PROVE  TypeInv'
  BY <1>1 DEF Submit, TypeInv, TypeOK, SubmitInv, BusyInv
<1>2. ASSUME NEW t \in Threads, ReadLock(t)
      PROVE  TypeInv'
  BY <1>2 DEF ReadLock, Return, TypeInv, TypeOK, SubmitInv, BusyInv
<1>3. ASSUME NEW t \in Threads, Send(t)
      PROVE  TypeInv'
  <2> DEFINE w == Target(t)
             c == InHand(t)
  <2>1. w \in WorkerIds /\ c \in Tasks /\ global \in Pools
    BY <1>3, TargetType DEF Send
  <2> HIDE DEF w, c
  <2>2. /\ chan' = [chan EXCEPT ![w] = Append(@, c)]
        /\ Len(chan[w]) < Cap
        /\ accepted' = [accepted EXCEPT ![global] = @ \cup {c}]
        /\ Return(t)
        /\ UNCHANGED <<pool, worker, job, calls, started, finished, lost>>
    BY <1>3 DEF Send, w, c
  <2>3. /\ chan' \in [WorkerIds -> Seq(Tasks)]
        /\ \A v \in WorkerIds : Len(chan'[v]) <= Cap
    <3>1. chan[w] \in Seq(Tasks) /\ Cap \in Nat
      BY <2>1, WorkerPoolAssumption DEF TypeInv, TypeOK
    <3>2. /\ Append(chan[w], c) \in Seq(Tasks)
          /\ Len(Append(chan[w], c)) <= Cap
      BY <2>1, <2>2, <3>1, AppendElements
    <3> QED
      BY <2>1, <2>2, <3>2 DEF TypeInv, TypeOK
  <2>4. accepted' \in [Pools -> SUBSET Tasks]
    BY <2>1, <2>2 DEF TypeInv, TypeOK
  <2>5. at' \in [Threads -> {"out", "lock", "send"}]
        /\ shard' \in [Threads -> Shards \cup {None}]
    BY <2>2 DEF TypeInv, TypeOK, Return
  <2>6. TypeOK'
    BY <2>2, <2>3, <2>4, <2>5 DEF TypeInv, TypeOK
  <2>7. SubmitInv' /\ BusyInv'
    BY <2>2 DEF TypeInv, TypeOK, SubmitInv, BusyInv, Return
  <2> QED
    BY <2>6, <2>7 DEF TypeInv
<1>4. ASSUME NEW t \in Threads, SendFails(t)
      PROVE  TypeInv'
  BY <1>4 DEF SendFails, Return, TypeInv, TypeOK, SubmitInv, BusyInv
<1>5. ASSUME NEW p \in Pools, New(p)
      PROVE  TypeInv'
  BY <1>5 DEF New, TypeInv, TypeOK, SubmitInv, BusyInv
<1>6. ASSUME NEW p \in Pools, Install(p) \/ Take(p)
      PROVE  TypeInv'
  <2>1. \A t \in Threads : at[t] # "send"
    BY <1>6 DEF Install, Take, Readers
  <2> QED
    BY <1>6, <2>1 DEF Install, Take, TypeInv, TypeOK, SubmitInv, BusyInv
<1>7. ASSUME NEW p \in Pools, Shutdown(p) \/ Join(p)
      PROVE  TypeInv'
  BY <1>7 DEF Shutdown, Join, TypeInv, TypeOK, SubmitInv, BusyInv
<1>8. ASSUME NEW w \in WorkerIds, Begin(w)
      PROVE  TypeInv'
  <2> DEFINE c == Head(chan[w])
             e == [task |-> c, worker |-> w]
  <2>1. chan[w] \in Seq(Tasks) /\ chan[w] # <<>>
    BY <1>8 DEF Begin, TypeInv, TypeOK
  <2>2. c \in Tasks /\ Tail(chan[w]) \in Seq(Tasks)
        /\ Len(Tail(chan[w])) = Len(chan[w]) - 1 /\ Len(chan[w]) \in Nat
    BY <2>1, TailElements
  <2>3. Len(Tail(chan[w])) <= Cap
    BY <2>2, WorkerPoolAssumption DEF TypeInv, TypeOK
  <2>4. e \in [task : Tasks, worker : WorkerIds]
    BY <2>2
  <2> HIDE DEF e, c
  <2>5. /\ chan' = [chan EXCEPT ![w] = Tail(chan[w])]
        /\ worker' = [worker EXCEPT ![w] = "busy"]
        /\ job' = [job EXCEPT ![w] = c]
        /\ started' = Append(started, e)
        /\ UNCHANGED <<pool, callers, accepted, finished, lost>>
    BY <1>8 DEF Begin, e, c
  <2>6. started' \in Seq([task : Tasks, worker : WorkerIds])
    BY <2>4, <2>5, AppendElements DEF TypeInv, TypeOK
  <2>7. /\ chan' \in [WorkerIds -> Seq(Tasks)]
        /\ \A v \in WorkerIds : Len(chan'[v]) <= Cap
    BY <2>2, <2>3, <2>5 DEF TypeInv, TypeOK
  <2>8. TypeOK'
    BY <2>2, <2>5, <2>6, <2>7 DEF TypeInv, TypeOK
  <2>9. SubmitInv' /\ BusyInv'
    BY <2>2, <2>5 DEF TypeInv, TypeOK, SubmitInv, BusyInv
  <2> QED
    BY <2>8, <2>9 DEF TypeInv
<1>9. ASSUME NEW w \in WorkerIds, Finish(w)
      PROVE  TypeInv'
  BY <1>9 DEF Finish, TypeInv, TypeOK, SubmitInv, BusyInv
<1>10. ASSUME NEW w \in WorkerIds, Panic(w)
      PROVE  TypeInv'
  <2>1. {chan[w][i] : i \in DOMAIN chan[w]} \subseteq Tasks /\ job[w] \in Tasks
    BY <1>10, SeqElement DEF Panic, TypeInv, TypeOK, BusyInv
  <2>2. <<>> \in Seq(Tasks) /\ Len(<<>>) <= Cap
    BY WorkerPoolAssumption
  <2> QED
    BY <1>10, <2>1, <2>2 DEF Panic, TypeInv, TypeOK, SubmitInv, BusyInv
<1>11. ASSUME NEW w \in WorkerIds, End(w)
      PROVE  TypeInv'
  BY <1>11 DEF End, TypeInv, TypeOK, SubmitInv, BusyInv
<1>12. CASE UNCHANGED vars
  BY <1>12 DEF vars, TypeInv, TypeOK, SubmitInv, BusyInv
<1> QED
  BY <1>1, <1>2, <1>3, <1>4, <1>5, <1>6, <1>7, <1>8, <1>9, <1>10, <1>11, <1>12
     DEF Next, Submitting, Managing, Working

(* The types hold in every behaviour; in particular no channel of a worker *)
(* ever holds more than its capacity (worker.rs 39).                       *)
THEOREM TypeCorrect == Spec => []TypeOK
<1>1. Spec => []TypeInv
  BY TypeInit, TypeStep, PTL DEF Spec
<1> QED
  BY <1>1, PTL DEF TypeInv

-----------------------------------------------------------------------------
(* Order within a shard.  A shard belongs to one worker of a pool, and     *)
(* what a worker has begun, then what waits in its channel, then what its  *)
(* callers are about to send, is in the order of the calls of each thread; *)
(* a worker begins a task only when all it began before are over.          *)

(* The call that made task c is over, or there was a later one: the task a *)
(* thread has in hand is newer.                                            *)
Sent(c, cl, a) == c.n <= cl[c.by] /\ (a[c.by] # "out" => c.n < cl[c.by])

Older(c, d) == c.by = d.by => c.n < d.n

Over(c) == c \in finished \cup lost

ChannelOrder ==
  \A w \in WorkerIds : \A i \in DOMAIN chan[w] :
    /\ chan[w][i].shard % Workers = w[2]
    /\ Sent(chan[w][i], calls, at)
    /\ \A j \in DOMAIN chan[w] : i < j => Older(chan[w][i], chan[w][j])
    /\ \A k \in DOMAIN started :
         started[k].worker = w => Older(started[k].task, chan[w][i])

StartedOrder ==
  \A k \in DOMAIN started :
    LET c == started[k].task
        w == started[k].worker
    IN /\ c.shard % Workers = w[2]
       /\ Sent(c, calls, at)
       /\ Over(c) \/ (worker[w] = "busy" /\ job[w] = c)
       /\ \A l \in DOMAIN started :
            k < l /\ started[l].worker = w
              => Over(c) /\ Older(c, started[l].task)

(* A pool's workers exist from New on.                                     *)
NoWorkersYet ==
  \A p \in Pools :
    stage[p] = "none" => \A w \in WorkersOf(p) : worker[w] = "none"

OrderInv == ChannelOrder /\ StartedOrder /\ NoWorkersYet

(* A step in which every thread stays where it is, leaves submit or begins *)
(* a new call.                                                             *)
Progress ==
  \A t \in Threads :
    \/ calls'[t] = calls[t] /\ (at'[t] # "out" => at[t] # "out")
    \/ calls'[t] = calls[t] + 1

(* What was sent stays sent.                                               *)
LEMMA SentKept ==
  ASSUME TypeInv, Progress, NEW c \in Tasks, Sent(c, calls, at)
  PROVE  Sent(c, calls', at')
<1>1. c.by \in Threads /\ c.n \in Nat /\ calls[c.by] \in Nat
  BY DEF Tasks, TypeInv, TypeOK
<1> QED
  BY <1>1 DEF Sent, Progress

(* The tasks of the channels and of the history are tasks.                 *)
LEMMA Elements ==
  ASSUME TypeInv
  PROVE  /\ \A w \in WorkerIds : \A i \in DOMAIN chan[w] : chan[w][i] \in Tasks
         /\ \A k \in DOMAIN started :
              started[k].task \in Tasks /\ started[k].worker \in WorkerIds
<1>1. ASSUME NEW w \in WorkerIds, NEW i \in DOMAIN chan[w]
      PROVE  chan[w][i] \in Tasks
  BY SeqElement DEF TypeInv, TypeOK
<1>2. ASSUME NEW k \in DOMAIN started
      PROVE  started[k] \in [task : Tasks, worker : WorkerIds]
  BY SeqElement DEF TypeInv, TypeOK
<1> QED
  BY <1>1, <1>2

(* Steps that move no task but may empty a channel: the order is kept if a *)
(* task that is over stays over and one that is running goes on or is over *)
LEMMA OrderFrame ==
  ASSUME TypeInv, OrderInv, Progress, UNCHANGED started, NoWorkersYet',
         \A w \in WorkerIds : chan'[w] = chan[w] \/ DOMAIN chan'[w] = {},
         finished \cup lost \subseteq finished' \cup lost',
         \A w \in WorkerIds :
           worker[w] = "busy" =>
             \/ worker'[w] = "busy" /\ job'[w] = job[w]
             \/ job[w] \in finished' \cup lost'
  PROVE  OrderInv'
<1>1. ChannelOrder'
  <2> SUFFICES ASSUME NEW w \in WorkerIds, NEW i \in DOMAIN chan[w],
                      chan'[w] = chan[w]
               PROVE  /\ chan[w][i].shard % Workers = w[2]
                      /\ Sent(chan[w][i], calls', at')
                      /\ \A j \in DOMAIN chan[w] :
                           i < j => Older(chan[w][i], chan[w][j])
                      /\ \A k \in DOMAIN started :
                           started[k].worker = w
                             => Older(started[k].task, chan[w][i])
    BY DEF ChannelOrder
  <2>1. Sent(chan[w][i], calls', at')
    BY Elements, SentKept DEF OrderInv, ChannelOrder
  <2> QED
    BY <2>1 DEF OrderInv, ChannelOrder
<1>2. StartedOrder'
  <2> SUFFICES ASSUME NEW k \in DOMAIN started
               PROVE  LET c == started[k].task
                          w == started[k].worker
                      IN /\ c.shard % Workers = w[2]
                         /\ Sent(c, calls', at')
                         /\ c \in finished' \cup lost'
                            \/ (worker'[w] = "busy" /\ job'[w] = c)
                         /\ \A l \in DOMAIN started :
                              k < l /\ started[l].worker = w
                                => /\ c \in finished' \cup lost'
                                   /\ Older(c, started[l].task)
    BY DEF StartedOrder, Over
  <2> DEFINE c == started[k].task
             w == started[k].worker
  <2>1. c \in Tasks /\ w \in WorkerIds
    BY Elements
  <2>2. Sent(c, calls', at')
    BY <2>1, SentKept DEF OrderInv, StartedOrder
  <2>3. Over(c) => c \in finished' \cup lost'
    BY <2>1 DEF Over
  <2>4. c \in finished' \cup lost' \/ (worker'[w] = "busy" /\ job'[w] = c)
    BY <2>1, <2>3 DEF OrderInv, StartedOrder, Over
  <2> QED
    BY <2>2, <2>3, <2>4 DEF OrderInv, StartedOrder
<1> QED
  BY <1>1, <1>2 DEF OrderInv

(* Nothing has been sent or begun initially.                               *)
LEMMA OrderInit == Init => OrderInv
<1> SUFFICES ASSUME Init
             PROVE  OrderInv
  OBVIOUS
<1>1. DOMAIN started = {} /\ \A w \in WorkerIds : DOMAIN chan[w] = {}
  BY DEF Init
<1>2. ChannelOrder /\ StartedOrder
  BY <1>1 DEF ChannelOrder, StartedOrder
<1> QED
  BY <1>2 DEF OrderInv, NoWorkersYet, Init, WorkersOf

(* Sending puts the task in hand behind all its thread has sent before.    *)
LEMMA OrderSend ==
  ASSUME TypeInv, OrderInv, NEW t \in Threads, Send(t)
  PROVE  OrderInv'
<1> DEFINE w == Target(t)
           c == InHand(t)
<1>1. w \in WorkerIds /\ c \in Tasks /\ w[2] = c.shard % Workers
  BY TargetType DEF Send
<1>2. at[t] = "send" /\ c.by = t /\ c.n = calls[t] /\ calls[t] \in Nat
  BY DEF Send, InHand, TypeInv, TypeOK
<1> HIDE DEF w, c
<1>3. /\ chan' = [chan EXCEPT ![w] = Append(@, c)]
      /\ calls' = calls /\ at' = [at EXCEPT ![t] = "out"]
      /\ UNCHANGED <<stage, worker, job, started, finished, lost>>
  BY DEF Send, Return, pool, w, c
<1>4. Progress
  BY <1>3 DEF Progress, TypeInv, TypeOK
<1>5. ASSUME NEW d \in Tasks, Sent(d, calls, at)
      PROVE  Older(d, c) /\ Sent(d, calls', at')
  BY <1>2, <1>4, <1>5, SentKept DEF Sent, Older
<1>6. Sent(c, calls', at')
  BY <1>2, <1>3 DEF Sent, TypeInv, TypeOK
<1>7. chan \in [WorkerIds -> Seq(Tasks)]
  BY DEF TypeInv, TypeOK
<1>8. ChannelOrder'
  <2> SUFFICES ASSUME NEW v \in WorkerIds, NEW i \in DOMAIN chan'[v]
               PROVE  /\ chan'[v][i].shard % Workers = v[2]
                      /\ Sent(chan'[v][i], calls', at')
                      /\ \A j \in DOMAIN chan'[v] :
                           i < j => Older(chan'[v][i], chan'[v][j])
                      /\ \A k \in DOMAIN started :
                           started[k].worker = v
                             => Older(started[k].task, chan'[v][i])
    BY <1>3 DEF ChannelOrder
  <2>1. CASE v # w
    <3>1. chan'[v] = chan[v]
      BY <1>1, <1>3, <1>7, <2>1
    <3>2. Sent(chan[v][i], calls', at')
      BY <1>5, <3>1, Elements DEF OrderInv, ChannelOrder
    <3> QED
      BY <3>1, <3>2 DEF OrderInv, ChannelOrder
  <2>2. CASE v = w
    <3> DEFINE q == chan[w]
    <3>1. chan'[v] = Append(q, c) /\ q \in Seq(Tasks)
      BY <1>1, <1>3, <1>7, <2>2
    <3>2. \A j \in DOMAIN q :
            /\ q[j] \in Tasks /\ Sent(q[j], calls', at') /\ Older(q[j], c)
            /\ q[j].shard % Workers = w[2]
      BY <1>1, <1>5, Elements DEF OrderInv, ChannelOrder
    <3>3. \A j \in DOMAIN chan'[v] :
            \/ j \in DOMAIN q /\ chan'[v][j] = q[j]
            \/ j = Len(q) + 1 /\ chan'[v][j] = c
      BY <1>1, <3>1, AppendElements
    <3>4. DOMAIN q = 1..Len(q) /\ Len(q) \in Nat
      BY <1>1, <3>1, AppendElements
    <3>5. \A k \in DOMAIN started :
            started[k].worker = v => Older(started[k].task, chan'[v][i])
      <4>1. \A k \in DOMAIN started : Older(started[k].task, c)
        BY <1>5, Elements DEF OrderInv, StartedOrder
      <4> QED
        BY <1>1, <2>2, <3>3, <4>1 DEF OrderInv, ChannelOrder
    <3>6. \A j \in DOMAIN chan'[v] : i < j => Older(chan'[v][i], chan'[v][j])
      BY <1>1, <2>2, <3>2, <3>3, <3>4 DEF OrderInv, ChannelOrder
    <3> QED
      BY <1>1, <1>6, <2>2, <3>2, <3>3, <3>5, <3>6
  <2> QED
    BY <2>1, <2>2
<1>9. StartedOrder'
  <2>1. ASSUME NEW k \in DOMAIN started
        PROVE  Sent(started[k].task, calls', at')
    BY <1>5, Elements DEF OrderInv, StartedOrder
  <2> QED
    BY <1>3, <2>1 DEF OrderInv, StartedOrder, Over
<1> QED
  BY <1>3, <1>8, <1>9 DEF OrderInv, NoWorkersYet

(* A worker that begins a task has ended those before it, and takes the    *)
(* first of its channel.                                                   *)
LEMMA OrderBegin ==
  ASSUME TypeInv, OrderInv, NEW w \in WorkerIds, Begin(w)
  PROVE  OrderInv'
<1> DEFINE q == chan[w]
           c == Head(q)
           e == [task |-> c, worker |-> w]
<1>1. q \in Seq(Tasks) /\ q # <<>> /\ worker[w] = "idle"
  BY DEF Begin, TypeInv, TypeOK
<1>2. c = q[1] /\ 1 \in DOMAIN q /\ c \in Tasks
  BY <1>1, TailElements
<1>3. e \in [task : Tasks, worker : WorkerIds] /\ e.task = c /\ e.worker = w
  BY <1>2
<1>4. /\ chan' = [chan EXCEPT ![w] = Tail(q)]
      /\ worker' = [worker EXCEPT ![w] = "busy"]
      /\ job' = [job EXCEPT ![w] = c]
      /\ started' = Append(started, e)
      /\ UNCHANGED <<stage, calls, at, finished, lost>>
  BY DEF Begin, pool, callers
<1> HIDE DEF q, c, e
<1>5. started \in Seq([task : Tasks, worker : WorkerIds])
  BY DEF TypeInv, TypeOK
<1>6. /\ DOMAIN started = 1..Len(started) /\ Len(started) \in Nat
      /\ DOMAIN started' = 1..(Len(started) + 1)
      /\ \A k \in DOMAIN started : started'[k] = started[k]
      /\ started'[Len(started) + 1] = e
  BY <1>3, <1>4, <1>5, AppendElements
<1>7. \A k \in DOMAIN started' :
        \/ k \in DOMAIN started /\ started'[k] = started[k]
        \/ k = Len(started) + 1 /\ started'[k] = e
  BY <1>6
<1>8. ChannelOrder'
  <2> SUFFICES ASSUME NEW v \in WorkerIds, NEW i \in DOMAIN chan'[v]
               PROVE  /\ chan'[v][i].shard % Workers = v[2]
                      /\ Sent(chan'[v][i], calls, at)
                      /\ \A j \in DOMAIN chan'[v] :
                           i < j => Older(chan'[v][i], chan'[v][j])
                      /\ \A k \in DOMAIN started' :
                           started'[k].worker = v
                             => Older(started'[k].task, chan'[v][i])
    BY <1>4 DEF ChannelOrder
  <2>1. CASE v # w
    <3>1. chan'[v] = chan[v]
      BY <1>4, <2>1 DEF TypeInv, TypeOK
    <3> QED
      BY <1>3, <1>7, <2>1, <3>1 DEF OrderInv, ChannelOrder
  <2>2. CASE v = w
    <3>1. chan'[v] = Tail(q)
      BY <1>4, <2>2 DEF TypeInv, TypeOK
    <3>2. \A j \in DOMAIN chan'[v] : j + 1 \in DOMAIN q /\ chan'[v][j] = q[j + 1]
      BY <1>1, <3>1, TailElements
    <3>3. /\ chan'[v][i].shard % Workers = v[2]
          /\ Sent(chan'[v][i], calls, at)
      BY <2>2, <3>2 DEF OrderInv, ChannelOrder, q
    <3>4. DOMAIN chan'[v] \subseteq Nat \ {0}
      BY <1>1, <3>1, TailElements
    <3>5. ASSUME NEW j \in DOMAIN chan'[v], i < j
          PROVE  Older(chan'[v][i], chan'[v][j])
      <4>1. i + 1 < j + 1
        BY <3>4, <3>5
      <4> QED
        BY <3>2, <4>1 DEF OrderInv, ChannelOrder, q
    <3>6. Older(c, chan'[v][i])
      <4>1. 1 < i + 1
        BY <3>4
      <4> QED
        BY <1>2, <3>2, <4>1 DEF OrderInv, ChannelOrder, q
    <3>7. ASSUME NEW k \in DOMAIN started', started'[k].worker = v
          PROVE  Older(started'[k].task, chan'[v][i])
      BY <1>3, <1>7, <2>2, <3>2, <3>6, <3>7 DEF OrderInv, ChannelOrder, q
    <3> QED
      BY <3>3, <3>5, <3>7
  <2> QED
    BY <2>1, <2>2
<1>9. StartedOrder'
  <2>1. /\ c.shard % Workers = w[2] /\ Sent(c, calls, at)
        /\ \A k \in DOMAIN started :
             started[k].worker = w => Older(started[k].task, c)
    BY <1>2 DEF OrderInv, ChannelOrder, q
  <2>2. \A k \in DOMAIN started :
          started[k].worker = w => Over(started[k].task)
    BY <1>1 DEF OrderInv, StartedOrder
  <2>3. worker'[w] = "busy" /\ job'[w] = c
    BY <1>4 DEF TypeInv, TypeOK
  <2>4. \A v \in WorkerIds : v # w => worker'[v] = worker[v] /\ job'[v] = job[v]
    BY <1>4 DEF TypeInv, TypeOK
  <2> SUFFICES ASSUME NEW k \in DOMAIN started'
               PROVE  LET d == started'[k].task
                          v == started'[k].worker
                      IN /\ d.shard % Workers = v[2]
                         /\ Sent(d, calls, at)
                         /\ Over(d) \/ (worker'[v] = "busy" /\ job'[v] = d)
                         /\ \A l \in DOMAIN started' :
                              k < l /\ started'[l].worker = v
                                => Over(d) /\ Older(d, started'[l].task)
    BY <1>4 DEF StartedOrder, Over
  <2>5. CASE k \in DOMAIN started /\ started'[k] = started[k]
    <3> DEFINE d == started[k].task
               v == started[k].worker
    <3>1. v \in WorkerIds
      BY <2>5, Elements
    <3>2. Over(d) \/ (worker'[v] = "busy" /\ job'[v] = d)
      BY <2>2, <2>4, <2>5, <3>1 DEF OrderInv, StartedOrder
    <3>3. ASSUME NEW l \in DOMAIN started', k < l, started'[l].worker = v
          PROVE  Over(d) /\ Older(d, started'[l].task)
      BY <1>3, <1>7, <2>1, <2>2, <2>5, <3>3 DEF OrderInv, StartedOrder
    <3> QED
      BY <2>5, <3>2, <3>3 DEF OrderInv, StartedOrder
  <2>6. CASE k = Len(started) + 1 /\ started'[k] = e
    <3>1. \A l \in DOMAIN started' : ~(k < l)
      BY <1>6, <2>6
    <3> QED
      BY <1>3, <2>1, <2>3, <2>6, <3>1
  <2> QED
    BY <1>7, <2>5, <2>6
<1>10. NoWorkersYet'
  BY <1>1, <1>4 DEF OrderInv, NoWorkersYet, WorkersOf, TypeInv, TypeOK
<1> QED
  BY <1>8, <1>9, <1>10 DEF OrderInv

(* Every step keeps the order.                                             *)
LEMMA OrderStep == TypeInv /\ OrderInv /\ [Next]_vars => OrderInv'
<1> SUFFICES ASSUME TypeInv, OrderInv, [Next]_vars
             PROVE  OrderInv'
  OBVIOUS
<1> USE DEF pool, threads, callers, history
<1>1. ASSUME NEW t \in Threads, NEW s \in Shards, Submit(t, s)
      PROVE  OrderInv'
  <2>1. Progress
    BY <1>1 DEF Submit, Progress, TypeInv, TypeOK
  <2>2. UNCHANGED <<stage, chan, worker, job, started, finished, lost>>
    BY <1>1 DEF Submit
  <2> QED
    BY <2>1, <2>2, OrderFrame DEF OrderInv, NoWorkersYet
<1>2. ASSUME NEW t \in Threads, ReadLock(t) \/ SendFails(t)
      PROVE  OrderInv'
  <2>1. Progress
    BY <1>2 DEF ReadLock, SendFails, Return, Progress, TypeInv, TypeOK
  <2>2. UNCHANGED <<stage, chan, worker, job, started, finished, lost>>
    BY <1>2 DEF ReadLock, SendFails
  <2> QED
    BY <2>1, <2>2, OrderFrame DEF OrderInv, NoWorkersYet
<1>3. ASSUME NEW t \in Threads, Send(t)
      PROVE  OrderInv'
  BY <1>3, OrderSend
<1>4. ASSUME NEW p \in Pools, New(p)
      PROVE  OrderInv'
  <2>1. Progress /\ UNCHANGED <<chan, job, started, finished, lost>>
    BY <1>4 DEF New, Progress
  <2>2. NoWorkersYet'
    BY <1>4 DEF New, OrderInv, NoWorkersYet, WorkersOf, TypeInv, TypeOK
  <2>3. \A w \in WorkerIds : worker[w] = "busy" => worker'[w] = "busy"
    BY <1>4 DEF New, OrderInv, NoWorkersYet, WorkersOf, TypeInv, TypeOK
  <2> QED
    BY <2>1, <2>2, <2>3, OrderFrame
<1>5. ASSUME NEW p \in Pools, Install(p) \/ Take(p) \/ Shutdown(p) \/ Join(p)
      PROVE  OrderInv'
  <2>1. Progress /\ UNCHANGED <<chan, worker, job, started, finished, lost>>
    BY <1>5 DEF Install, Take, Shutdown, Join, Progress
  <2>2. \A r \in Pools : stage'[r] = "none" => stage[r] = "none"
    BY <1>5 DEF Install, Take, Shutdown, Join, TypeInv, TypeOK
  <2> QED
    BY <2>1, <2>2, OrderFrame DEF OrderInv, NoWorkersYet
<1>6. ASSUME NEW w \in WorkerIds, Begin(w)
      PROVE  OrderInv'
  BY <1>6, OrderBegin
<1>7. ASSUME NEW w \in WorkerIds, Finish(w) \/ End(w) \/ Panic(w)
      PROVE  OrderInv'
  <2>1. Progress /\ UNCHANGED <<started, stage>>
    BY <1>7 DEF Finish, End, Panic, Progress
  <2>2. \A v \in WorkerIds : chan'[v] = chan[v] \/ DOMAIN chan'[v] = {}
    BY <1>7 DEF Finish, End, Panic, TypeInv, TypeOK
  <2>3. finished \cup lost \subseteq finished' \cup lost'
    BY <1>7 DEF Finish, End, Panic
  <2>4. \A v \in WorkerIds :
          worker[v] = "busy" =>
            \/ worker'[v] = "busy" /\ job'[v] = job[v]
            \/ job[v] \in finished' \cup lost'
    BY <1>7 DEF Finish, End, Panic, TypeInv, TypeOK
  <2>5. NoWorkersYet'
    BY <1>7, <2>1 DEF Finish, End, Panic, OrderInv, NoWorkersYet, TypeInv,
       TypeOK, WorkersOf
  <2> QED
    BY <2>1, <2>2, <2>3, <2>4, <2>5, OrderFrame
<1>8. CASE UNCHANGED vars
  <2>1. Progress
    BY <1>8 DEF vars, Progress
  <2> QED
    BY <1>8, <2>1, OrderFrame DEF vars, OrderInv, NoWorkersYet
<1> QED
  BY <1>1, <1>2, <1>3, <1>4, <1>5, <1>6, <1>7, <1>8
     DEF Next, Submitting, Managing, Working

(* Tasks of one thread with one shard_idx run in the order of the calls of *)
(* submit, each at most once and never two at a time, whatever the other   *)
(* callers, the pools and panics do (worker.rs 21-23 and 43-48).           *)
THEOREM ShardsOrdered == Spec => []ShardOrder
<1>1. Spec => [](TypeInv /\ OrderInv)
  BY TypeInit, TypeStep, OrderInit, OrderStep, PTL DEF Spec
<1>2. TypeInv /\ OrderInv => ShardOrder
  <2> SUFFICES ASSUME TypeInv, OrderInv,
                      NEW i \in DOMAIN started, NEW j \in DOMAIN started,
                      i < j,
                      started[i].worker[1] = started[j].worker[1],
                      started[i].task.by = started[j].task.by,
                      started[i].task.shard = started[j].task.shard
               PROVE  /\ started[i].task.n < started[j].task.n
                      /\ started[i].task \in finished \cup lost
    BY DEF ShardOrder
  <2>1. started[i].worker[2] = started[j].worker[2]
    BY DEF OrderInv, StartedOrder
  <2>2. \A v, w \in WorkerIds : v[1] = w[1] /\ v[2] = w[2] => v = w
    BY DEF WorkerIds
  <2>3. started[i].worker = started[j].worker
    BY <2>1, <2>2, Elements
  <2> QED
    BY <2>3 DEF OrderInv, StartedOrder, Older, Over
<1> QED
  BY <1>1, <1>2, PTL

-----------------------------------------------------------------------------
(* Draining.  A task a pool has accepted is over, running or in the        *)
(* channel of one of the pool's workers; a worker that has ended leaves    *)
(* its channel empty behind it; and when a pool is gone, so are its        *)
(* workers, for good.                                                      *)
InChannel(c, w) == \E i \in DOMAIN chan[w] : chan[w][i] = c

Kept(c, w) == InChannel(c, w) \/ (worker[w] = "busy" /\ job[w] = c)

AcceptedKept ==
  \A p \in Pools : \A c \in accepted[p] :
    Over(c) \/ \E w \in WorkersOf(p) : Kept(c, w)

EndedEmpty == \A w \in WorkerIds : Ended(w) => DOMAIN chan[w] = {}

GoneEnded ==
  \A p \in Pools : stage[p] = "gone" => \A w \in WorkersOf(p) : Ended(w)

DrainInv == AcceptedKept /\ EndedEmpty /\ GoneEnded

(* Steps that accept nothing: it is enough that each kept task is kept or  *)
(* over afterwards.                                                        *)
LEMMA DrainFrame ==
  ASSUME DrainInv, UNCHANGED accepted,
         finished \cup lost \subseteq finished' \cup lost',
         \A w \in WorkerIds : \A c \in Tasks :
           Kept(c, w) => Kept(c, w)' \/ c \in finished' \cup lost',
         TypeInv, EndedEmpty', GoneEnded'
  PROVE  DrainInv'
<1>1. AcceptedKept'
  <2> SUFFICES ASSUME NEW p \in Pools, NEW c \in accepted[p]
               PROVE  c \in finished' \cup lost'
                      \/ \E w \in WorkersOf(p) : Kept(c, w)'
    BY DEF AcceptedKept, Over, WorkersOf
  <2>1. c \in Tasks
    BY DEF TypeInv, TypeOK
  <2>2. CASE Over(c)
    BY <2>2 DEF Over
  <2>3. ASSUME NEW w \in WorkersOf(p), Kept(c, w)
        PROVE  Kept(c, w)' \/ c \in finished' \cup lost'
    BY <2>1, <2>3 DEF WorkersOf
  <2> QED
    BY <2>2, <2>3 DEF DrainInv, AcceptedKept
<1> QED
  BY <1>1 DEF DrainInv

(* Nothing has been accepted initially.                                    *)
LEMMA DrainInit == Init => DrainInv
<1> SUFFICES ASSUME Init
             PROVE  DrainInv
  OBVIOUS
<1>1. AcceptedKept /\ GoneEnded
  BY DEF Init, AcceptedKept, GoneEnded
<1>2. \A w \in WorkerIds : DOMAIN chan[w] = {}
  BY DEF Init
<1> QED
  BY <1>1, <1>2 DEF DrainInv, EndedEmpty

(* Every step keeps what a pool has accepted until it is over.             *)
LEMMA DrainStep == TypeInv /\ OrderInv /\ DrainInv /\ [Next]_vars => DrainInv'
<1> SUFFICES ASSUME TypeInv, OrderInv, DrainInv, [Next]_vars
             PROVE  DrainInv'
  OBVIOUS
<1> USE DEF pool, threads, callers, history
<1>1. ASSUME UNCHANGED <<chan, worker, job, accepted, finished, lost>>, GoneEnded'
      PROVE  DrainInv'
  BY <1>1 DEF DrainInv, AcceptedKept, EndedEmpty, Over, Kept, InChannel, Ended
<1>2. ASSUME NEW t \in Threads, Send(t)
      PROVE  DrainInv'
  <2>0. /\ Target(t) \in WorkerIds /\ InHand(t) \in Tasks
        /\ Target(t)[1] = global /\ global \in Pools
    BY <1>2, TargetType DEF Send
  <2> PICK w \in WorkerIds, c \in Tasks : w = Target(t) /\ c = InHand(t)
    BY <2>0
  <2>1. w[1] = global /\ global \in Pools
    BY <2>0
  <2>2. /\ ~Ended(w)
        /\ chan' = [chan EXCEPT ![w] = Append(@, c)]
        /\ accepted' = [accepted EXCEPT ![global] = @ \cup {c}]
        /\ UNCHANGED <<stage, worker, job, finished, lost>>
    BY <1>2 DEF Send
  <2>3. chan[w] \in Seq(Tasks) /\ chan'[w] = Append(chan[w], c)
    BY <2>1, <2>2 DEF TypeInv, TypeOK
  <2>4. \A v \in WorkerIds : v # w => chan'[v] = chan[v]
    BY <2>2 DEF TypeInv, TypeOK
  <2>5. \A i \in DOMAIN chan[w] : i \in DOMAIN chan'[w] /\ chan'[w][i] = chan[w][i]
    BY <2>1, <2>3, AppendElements
  <2>6. \A v \in WorkerIds : \A d \in Tasks : Kept(d, v) => Kept(d, v)'
    BY <2>2, <2>4, <2>5 DEF Kept, InChannel
  <2>7. InChannel(c, w)'
    <3>1. Len(chan[w]) + 1 \in DOMAIN chan'[w] /\ chan'[w][Len(chan[w]) + 1] = c
      BY <2>1, <2>3, AppendElements
    <3> QED
      BY <3>1 DEF InChannel
  <2>8. AcceptedKept'
    <3> SUFFICES ASSUME NEW p \in Pools, NEW d \in accepted'[p]
                 PROVE  Over(d) \/ \E v \in WorkersOf(p) : Kept(d, v)'
      BY <2>2 DEF AcceptedKept, Over, WorkersOf
    <3>1. d \in accepted[p] \/ (p = global /\ d = c)
      BY <2>1, <2>2 DEF TypeInv, TypeOK
    <3>2. CASE d \in accepted[p]
      <4>1. d \in Tasks
        BY <3>2 DEF TypeInv, TypeOK
      <4> QED
        BY <2>6, <3>2, <4>1 DEF DrainInv, AcceptedKept, WorkersOf
    <3>3. CASE p = global /\ d = c
      BY <2>1, <2>7, <3>3 DEF WorkersOf, Kept
    <3> QED
      BY <3>1, <3>2, <3>3
  <2>9. EndedEmpty'
    BY <2>2, <2>4 DEF DrainInv, EndedEmpty, Ended
  <2> QED
    BY <2>2, <2>8, <2>9 DEF DrainInv, GoneEnded, Ended
<1>3. ASSUME NEW p \in Pools, New(p)
      PROVE  DrainInv'
  <2>1. /\ stage[p] = "none"
        /\ stage' = [stage EXCEPT ![p] = "installing"]
        /\ UNCHANGED <<chan, job, accepted, finished, lost>>
        /\ \A w \in WorkerIds :
             worker'[w] = IF w \in WorkersOf(p) THEN "idle" ELSE worker[w]
    BY <1>3 DEF New
  <2>2. \A w \in WorkersOf(p) : worker[w] = "none"
    BY <2>1 DEF OrderInv, NoWorkersYet
  <2>3. \A w \in WorkerIds : Ended(w)' <=> Ended(w)
    BY <2>1, <2>2 DEF Ended
  <2>4. EndedEmpty' /\ GoneEnded'
    BY <2>1, <2>3 DEF DrainInv, EndedEmpty, GoneEnded, WorkersOf, TypeInv, TypeOK
  <2>5. \A w \in WorkerIds : \A c \in Tasks : Kept(c, w) => Kept(c, w)'
    BY <2>1, <2>2 DEF Kept, InChannel
  <2> QED
    BY <2>1, <2>4, <2>5, DrainFrame
<1>4. ASSUME NEW w \in WorkerIds, Begin(w)
      PROVE  DrainInv'
  <2>1. chan[w] \in Seq(Tasks) /\ chan[w] # <<>> /\ worker[w] = "idle"
    BY <1>4 DEF Begin, TypeInv, TypeOK
  <2>2. /\ chan'[w] = Tail(chan[w])
        /\ worker'[w] = "busy" /\ job'[w] = Head(chan[w])
        /\ UNCHANGED <<stage, accepted, finished, lost>>
        /\ \A v \in WorkerIds \ {w} :
             chan'[v] = chan[v] /\ worker'[v] = worker[v] /\ job'[v] = job[v]
    BY <1>4 DEF Begin, TypeInv, TypeOK
  <2>3. ASSUME NEW c \in Tasks, Kept(c, w)
        PROVE  Kept(c, w)'
    <3>1. PICK i \in DOMAIN chan[w] : chan[w][i] = c
      BY <2>1, <2>3 DEF Kept, InChannel
    <3>2. CASE i = 1
      BY <2>1, <2>2, <3>1, <3>2, TailElements DEF Kept
    <3>3. CASE i # 1
      <4>1. i - 1 \in DOMAIN Tail(chan[w]) /\ Tail(chan[w])[i - 1] = c
        BY <2>1, <3>1, <3>3, TailElements
      <4> QED
        BY <2>2, <4>1 DEF Kept, InChannel
    <3> QED
      BY <3>2, <3>3
  <2>4. \A v \in WorkerIds : \A c \in Tasks : Kept(c, v) => Kept(c, v)'
    <3>1. ASSUME NEW v \in WorkerIds, v # w, NEW c \in Tasks, Kept(c, v)
          PROVE  Kept(c, v)'
      BY <2>2, <3>1 DEF Kept, InChannel
    <3> QED
      BY <2>3, <3>1
  <2>5. \A v \in WorkerIds :
          (Ended(v)' <=> Ended(v)) /\ (v # w => chan'[v] = chan[v])
    BY <2>1, <2>2 DEF Ended
  <2>6. EndedEmpty' /\ GoneEnded'
    BY <2>1, <2>2, <2>5 DEF DrainInv, EndedEmpty, GoneEnded, WorkersOf, Ended
  <2> QED
    BY <2>2, <2>4, <2>6, DrainFrame
<1>5. ASSUME NEW w \in WorkerIds, Finish(w) \/ End(w) \/ Panic(w)
      PROVE  DrainInv'
  <2>1. /\ UNCHANGED <<stage, accepted>>
        /\ finished \cup lost \subseteq finished' \cup lost'
        /\ \A v \in WorkerIds \ {w} :
             chan'[v] = chan[v] /\ worker'[v] = worker[v] /\ job'[v] = job[v]
    BY <1>5 DEF Finish, End, Panic, TypeInv, TypeOK
  <2>2. /\ ~Ended(w)
        /\ Ended(w)' => DOMAIN chan'[w] = {}
    BY <1>5 DEF Finish, End, Panic, Ended, TypeInv, TypeOK
  <2>3. ASSUME NEW c \in Tasks, Kept(c, w)
        PROVE  Kept(c, w)' \/ c \in finished' \cup lost'
    BY <1>5, <2>3 DEF Finish, End, Panic, Kept, InChannel, TypeInv, TypeOK
  <2>4. ASSUME NEW v \in WorkerIds, v # w, NEW c \in Tasks, Kept(c, v)
        PROVE  Kept(c, v)'
    BY <2>1, <2>4 DEF Kept, InChannel
  <2>5. EndedEmpty' /\ GoneEnded'
    BY <2>1, <2>2 DEF DrainInv, EndedEmpty, GoneEnded, WorkersOf, Ended
  <2> QED
    BY <2>1, <2>3, <2>4, <2>5, DrainFrame
<1>6. ASSUME NEW t \in Threads, NEW s \in Shards, Submit(t, s)
      PROVE  DrainInv'
  BY <1>1, <1>6 DEF Submit, DrainInv, GoneEnded, Ended
<1>7. ASSUME NEW t \in Threads, ReadLock(t) \/ SendFails(t)
      PROVE  DrainInv'
  BY <1>1, <1>7 DEF ReadLock, SendFails, DrainInv, GoneEnded, Ended
<1>8. ASSUME NEW p \in Pools, Install(p) \/ Take(p) \/ Shutdown(p) \/ Join(p)
      PROVE  DrainInv'
  <2>1. GoneEnded'
    BY <1>8 DEF Install, Take, Shutdown, Join, DrainInv, GoneEnded, Ended,
       TypeInv, TypeOK
  <2> QED
    BY <1>1, <1>8, <2>1 DEF Install, Take, Shutdown, Join
<1>9. CASE UNCHANGED vars
  BY <1>1, <1>9 DEF vars, DrainInv, GoneEnded, Ended
<1> QED
  BY <1>2, <1>3, <1>4, <1>5, <1>6, <1>7, <1>8, <1>9
     DEF Next, Submitting, Managing, Working

(* When shutdown has returned, every task its pool accepted has run, or    *)
(* went down with a worker that panicked: also when callers were blocked   *)
(* on full channels and when another pool's shutdown took the senders      *)
(* (worker.rs 64-78).                                                      *)
THEOREM ShutdownDrained == Spec => []ShutdownDrains
<1>1. Spec => [](TypeInv /\ OrderInv /\ DrainInv)
  BY TypeInit, TypeStep, OrderInit, OrderStep, DrainInit, DrainStep, PTL
     DEF Spec
<1>2. DrainInv => ShutdownDrains
  <2> SUFFICES ASSUME DrainInv, NEW p \in Pools, stage[p] = "gone",
                      NEW c \in accepted[p]
               PROVE  c \in finished \cup lost
    BY DEF ShutdownDrains
  <2>1. ASSUME NEW w \in WorkersOf(p)
        PROVE  ~Kept(c, w)
    BY DEF DrainInv, GoneEnded, EndedEmpty, Ended, Kept, InChannel, WorkersOf
  <2> QED
    BY <2>1 DEF DrainInv, AcceptedKept, Over
<1> QED
  BY <1>1, <1>2, PTL

-----------------------------------------------------------------------------
(* The replies: AsyncReply.                                                *)


(* The elements of a finite set, each once.                                *)
LEMMA SeqOfSet ==
  ASSUME NEW S, IsFiniteSet(S)
  PROVE  /\ SetToSeq(S) \in Seq(S)
         /\ \A i, j \in DOMAIN SetToSeq(S) :
              SetToSeq(S)[i] = SetToSeq(S)[j] => i = j
         /\ \A x \in S : \E i \in DOMAIN SetToSeq(S) : SetToSeq(S)[i] = x
<1> PICK n : n = Cardinality(S)
  OBVIOUS
<1>1. n \in Nat /\ ExistsBijection(1..n, S)
  BY FS_CardinalityType
<1>2. \E f \in [1..n -> S] : IsInjective(f)
  BY <1>1 DEF ExistsBijection, Bijection, Injection, IsInjective
<1> PICK q : q = SetToSeq(S)
  OBVIOUS
<1>3. q \in [1..n -> S] /\ IsInjective(q)
  BY <1>2, Zenon DEF SetToSeq
<1>4. q \in Injection(1..n, S)
  BY <1>3 DEF Injection
<1>5. IsFiniteSet(1..n) /\ Cardinality(1..n) = n
  BY <1>1, FS_Interval
<1>6. q \in Surjection(1..n, S)
  BY <1>4, <1>5, FS_Injection
<1>7. \A x \in S : \E i \in 1..n : q[i] = x
  BY <1>6 DEF Surjection
<1>8. q \in Seq(S) /\ DOMAIN q = 1..n
  BY <1>1, <1>3
<1> QED
  BY <1>3, <1>7, <1>8 DEF IsInjective

(* S is one message to each of the connections in R.                       *)
OneEach(S, R, m) ==
  /\ \A c \in R : [to |-> c, msg |-> m] \in S
  /\ \A e \in S : e.to \in R /\ e = [to |-> e.to, msg |-> m]

(* Such writes are finitely many if the connections are, and a sequence of *)
(* them has one for each connection.                                       *)
LEMMA WritesOnce ==
  ASSUME NEW R, IsFiniteSet(R), NEW m, NEW S, OneEach(S, R, m)
  PROVE  /\ SetToSeq(S) \in Seq(S)
         /\ \A x, y \in DOMAIN SetToSeq(S) :
              SetToSeq(S)[x].to = SetToSeq(S)[y].to => x = y
         /\ \A c \in R : \E x \in DOMAIN SetToSeq(S) :
              SetToSeq(S)[x] = [to |-> c, msg |-> m]
<1> DEFINE f == [c \in R |-> [to |-> c, msg |-> m]]
<1>1. f \in Surjection(R, S)
  BY DEF Surjection, OneEach
<1> HIDE DEF f
<1>2. IsFiniteSet(S)
  BY <1>1, FS_Surjection
<1>3. PICK q : q = SetToSeq(S)
  OBVIOUS
<1>4. /\ q \in Seq(S)
      /\ \A x, y \in DOMAIN q : q[x] = q[y] => x = y
      /\ \A e \in S : \E x \in DOMAIN q : q[x] = e
  BY <1>2, <1>3, SeqOfSet
<1>5. \A x \in DOMAIN q : q[x] \in S
  BY <1>4
<1>6. ASSUME NEW x \in DOMAIN q, NEW y \in DOMAIN q, q[x].to = q[y].to
      PROVE  x = y
  <2>1. /\ q[x] = [to |-> q[x].to, msg |-> m]
        /\ q[y] = [to |-> q[y].to, msg |-> m]
    BY <1>5 DEF OneEach
  <2>2. q[x] = q[y]
    BY <1>6, <2>1, Zenon
  <2> QED
    BY <1>4, <2>2, Zenon
<1>7. \A c \in R : \E x \in DOMAIN q : q[x] = [to |-> c, msg |-> m]
  BY <1>4, Zenon DEF OneEach
<1> QED
  BY <1>3, <1>4, <1>6, <1>7, Zenon

-----------------------------------------------------------------------------
(* The invariant.                                                          *)

Msgs == [from : Conns, n : Nat]
Mails == [to : Conns, msg : Msgs]

RTypes ==
  /\ state \in [Conns -> {"new", "live", "closed"}]
  /\ members \in [Loops -> SUBSET Conns]
  /\ \A i \in Loops :
       /\ IsFiniteSet(members[i])
       /\ members[i] = {c \in HomeOf(i) : state[c] = "live"}
  /\ asked \in [Conns -> Nat]
  /\ body \in [Loops -> Seq(Msgs)]
  /\ todo \in [WorkerIds -> Nat]
  /\ mail \in [Loops -> Seq(Mails)]
  /\ wire \in [Conns -> Seq(Msgs)]
  /\ since \in [Conns -> [Conns -> Nat]]

(* m comes before o if both are of one sender.                             *)
Before(m, o) == m.from = o.from => m.n < o.n

(* What the closures of a loop captured: requests of its connections, one  *)
(* per call of submit and in the order of the requests.                    *)
BodyOrder ==
  \A i \in Loops :
    /\ Len(body[i]) = calls[LoopOf[i]]
    /\ \A x \in DOMAIN body[i] : /\ Home[body[i][x].from] = i
                                 /\ body[i][x].n <= asked[body[i][x].from]
    /\ \A x, y \in DOMAIN body[i] : x < y => Before(body[i][x], body[i][y])

(* A task of loop i.                                                       *)
LoopTask(c, i) == c.by = LoopOf[i] /\ c.shard = i /\ c.n > 0

(* Only loops submit, each to the shard of its own number, and all tasks   *)
(* are with the one pool whose senders are installed.                      *)
OwnTasks ==
  /\ \A t \in Threads :
       at[t] # "out" =>
         calls[t] > 0 /\ \E i \in Loops : t = LoopOf[i] /\ shard[t] = i
  /\ \A w \in WorkerIds : \A x \in DOMAIN chan[w] :
       w[1] = global /\ \E i \in Loops : LoopTask(chan[w][x], i)
  /\ \A k \in DOMAIN started :
       started[k].worker[1] = global
         /\ \E i \in Loops : LoopTask(started[k].task, i)

(* What a worker is busy with is what it began last.                       *)
BusyLast ==
  \A w \in WorkerIds :
    worker[w] = "busy" =>
      \E l \in DOMAIN started :
        /\ started[l].task = job[w] /\ started[l].worker = w
        /\ \A k \in DOMAIN started : l < k => started[k].worker # w

(* The closure of a loop's x-th task has dealt with shard j.               *)
Ran(i, x, j) ==
  \E k \in DOMAIN started :
    /\ started[k].task.by = LoopOf[i] /\ started[k].task.n = x
    /\ worker[started[k].worker] = "busy"
         /\ job[started[k].worker] = started[k].task
         => j < todo[started[k].worker]

(* A closure that captured m has dealt with shard j.                       *)
Said(m, j) ==
  \E i \in Loops : \E x \in DOMAIN body[i] : body[i][x] = m /\ Ran(i, x, j)

(* Whatever is on its way to a connection, or has arrived there, comes     *)
(* from a closure that has dealt with the connection's loop.               *)
Sources ==
  /\ \A j \in Loops : \A x \in DOMAIN mail[j] :
       /\ Home[mail[j][x].to] = j /\ Said(mail[j][x].msg, j)
       /\ mail[j][x].to \in Addressed(mail[j][x].msg.from)
  /\ \A c \in Conns : \A k \in DOMAIN wire[c] :
       Said(wire[c][k], Home[c]) /\ c \in Addressed(wire[c][k].from)

(* For each connection, what has arrived and then what is on its way is in *)
(* order.                                                                  *)
MailOrder ==
  /\ \A i \in Loops : \A x, y \in DOMAIN mail[i] :
       x < y /\ mail[i][x].to = mail[i][y].to
         => Before(mail[i][x].msg, mail[i][y].msg)
  /\ \A i \in Loops : \A x \in DOMAIN mail[i] :
       \A k \in DOMAIN wire[mail[i][x].to] :
         Before(wire[mail[i][x].to][k], mail[i][x].msg)

PoolInv == TypeInv /\ OrderInv

(* What a pool has accepted is in a channel or has been begun.             *)
AcceptedKnown ==
  \A p \in Pools : \A t \in accepted[p] :
    \/ \E w \in WorkerIds : \E x \in DOMAIN chan[w] : chan[w][x] = t
    \/ \E k \in DOMAIN started : started[k].task = t

InMail(c, m) ==
  \E x \in DOMAIN mail[Home[c]] : mail[Home[c]][x] = [to |-> c, msg |-> m]

Arrived(c, m) == \E k \in DOMAIN wire[c] : wire[c][k] = m

(* Once a closure has dealt with a shard, its message has arrived at every *)
(* open connection there that it is for and that is older than it, or is   *)
(* on its way.                                                             *)
DealtWith ==
  \A c \in Conns : \A i \in Loops : \A x \in DOMAIN body[i] :
    /\ state[c] = "live" /\ c \in Addressed(body[i][x].from)
    /\ since[c][body[i][x].from] < body[i][x].n
    /\ Ran(i, x, Home[c])
    => Arrived(c, body[i][x]) \/ InMail(c, body[i][x])

(* The inductive invariant.                                                *)
Inv ==
  /\ PoolInv /\ RTypes /\ BodyOrder /\ OwnTasks /\ BusyLast
  /\ Sources /\ MailOrder /\ RepliesInOrder

(* What is added to it for completeness.                                   *)
FullInv == AcceptedKnown /\ DealtWith /\ RepliesComplete
-----------------------------------------------------------------------------
(* Constants.                                                              *)
LEMMA Consts ==
  /\ \A i \in Loops : /\ LoopOf[i] \in Threads /\ i \in Shards
                      /\ i \in Nat /\ i < N
  /\ \A i, j \in Loops : LoopOf[i] = LoopOf[j] => i = j
  /\ \A c \in Conns : Home[c] \in Loops
  /\ N \in Nat /\ \A n \in Nat : n < N => n \in Loops
<1>1. N \in Nat \ {0}
  BY AsyncReplyAssumption
<1>2. \A i \in Loops : i \in Nat /\ i < N
  BY <1>1 DEF Loops
<1>3. \A n \in Nat : n < N => n \in Loops
  BY <1>1 DEF Loops
<1> QED
  BY <1>1, <1>2, <1>3, AsyncReplyAssumption DEF Threads

(* Every step is a step of the pool or leaves the pool alone.              *)
LEMMA PoolStepsOnly == [RNext]_rvars => [Next]_vars
<1> SUFFICES ASSUME [RNext]_rvars PROVE [Next]_vars
  OBVIOUS
<1>1. ASSUME NEW c \in Conns, Open(c) \/ Close(c) PROVE UNCHANGED vars
  BY <1>1 DEF Open, Close
<1>2. ASSUME NEW c \in Conns, Traffic(c) PROVE Next
  <2>1. /\ LoopOf[Home[c]] \in Threads /\ Home[c] \in Shards
        /\ Submit(LoopOf[Home[c]], Home[c])
    BY <1>2, Consts DEF Traffic
  <2> QED
    BY <2>1 DEF Next
<1>3. ASSUME NEW i \in Loops, Blocked(i) PROVE Next
  <2>1. LoopOf[i] \in Threads /\ Submitting(LoopOf[i])
    BY <1>3, Consts DEF Blocked
  <2> QED
    BY <2>1 DEF Next
<1>4. ASSUME NEW i \in Loops, Write(i) PROVE UNCHANGED vars
  BY <1>4 DEF Write
<1>5. ASSUME NEW w \in WorkerIds, BeginTask(w) \/ FinishTask(w) PROVE Next
  BY <1>5 DEF BeginTask, FinishTask, Next, Working
<1>6. ASSUME NEW w \in WorkerIds, Deliver(w) PROVE UNCHANGED vars
  BY <1>6 DEF Deliver
<1>7. ASSUME NEW p \in Pools, StartPool(p) \/ PoolStep(p) PROVE Next
  BY <1>7 DEF StartPool, PoolStep, Next, Managing
<1>8. CASE UNCHANGED rvars
  BY <1>8 DEF rvars
<1> QED
  BY <1>1, <1>2, <1>3, <1>4, <1>5, <1>6, <1>7, <1>8 DEF RNext, TaskStep

(* So the pool's invariant is kept.                                        *)
LEMMA PoolKept ==
  ASSUME PoolInv, [RNext]_rvars
  PROVE  PoolInv'
  BY PoolStepsOnly, TypeStep, OrderStep DEF PoolInv

(* The worker of loop i's tasks.                                           *)
Lane(i) == <<global, i % Workers>>

(* A task in the history: of which loop it is, and where it ran.           *)
LEMMA StartedTask ==
  ASSUME PoolInv, OwnTasks, NEW k \in DOMAIN started
  PROVE  /\ started[k].task \in Tasks /\ started[k].worker \in WorkerIds
         /\ Sent(started[k].task, calls, at)
         /\ \E i \in Loops : /\ LoopTask(started[k].task, i)
                             /\ started[k].worker = Lane(i)
<1>1. started[k].task \in Tasks /\ started[k].worker \in WorkerIds
  BY Elements DEF PoolInv
<1>2. /\ Sent(started[k].task, calls, at)
      /\ started[k].task.shard % Workers = started[k].worker[2]
  BY DEF PoolInv, OrderInv, StartedOrder
<1>3. PICK i \in Loops : LoopTask(started[k].task, i)
  BY DEF OwnTasks
<1>4. started[k].worker[1] = global /\ started[k].worker[2] = i % Workers
  BY <1>2, <1>3 DEF OwnTasks, LoopTask
<1>5. started[k].worker = Lane(i)
  BY <1>1, <1>4 DEF Lane, WorkerIds
<1> QED
  BY <1>1, <1>2, <1>3, <1>5

(* A task in a channel: the same.                                          *)
LEMMA ChannelTask ==
  ASSUME PoolInv, OwnTasks, NEW w \in WorkerIds, NEW x \in DOMAIN chan[w]
  PROVE  /\ chan[w][x] \in Tasks /\ Sent(chan[w][x], calls, at)
         /\ \E i \in Loops : LoopTask(chan[w][x], i) /\ w = Lane(i)
<1>1. chan[w][x] \in Tasks
  BY Elements DEF PoolInv
<1>2. Sent(chan[w][x], calls, at) /\ chan[w][x].shard % Workers = w[2]
  BY DEF PoolInv, OrderInv, ChannelOrder
<1>3. PICK i \in Loops : LoopTask(chan[w][x], i)
  BY DEF OwnTasks
<1>4. w[1] = global /\ w[2] = i % Workers
  BY <1>2, <1>3 DEF OwnTasks, LoopTask
<1>5. w = Lane(i)
  BY <1>4 DEF Lane, WorkerIds
<1> QED
  BY <1>1, <1>2, <1>3, <1>5

(* What the closure of a loop's task captured.                             *)
LEMMA CapturedBody ==
  ASSUME RTypes, BodyOrder, NEW c \in Tasks, NEW i \in Loops, LoopTask(c, i),
         Sent(c, calls, at)
  PROVE  /\ c.n \in DOMAIN body[i] /\ Captured(c) = body[i][c.n]
         /\ body[i][c.n] \in Msgs
<1>1. c.n \in Nat /\ c.n > 0 /\ c.n <= calls[LoopOf[i]]
  BY DEF Tasks, LoopTask, Sent
<1>2. body[i] \in Seq(Msgs) /\ Len(body[i]) = calls[LoopOf[i]]
  BY DEF RTypes, BodyOrder
<1>3. c.n \in DOMAIN body[i]
  BY <1>1, <1>2
<1>4. (CHOOSE j \in Loops : LoopOf[j] = c.by) = i
  BY Consts DEF LoopTask
<1> QED
  BY <1>2, <1>3, <1>4, SeqElement DEF Captured

-----------------------------------------------------------------------------
(* A step of the closures and of what they have captured: nothing already  *)
(* said is taken back.                                                     *)
Onward ==
  /\ \A i \in Loops : \A x \in DOMAIN body[i] :
       x \in DOMAIN body'[i] /\ body'[i][x] = body[i][x]
  /\ \A k \in DOMAIN started :
       /\ k \in DOMAIN started' /\ started'[k] = started[k]
       /\ worker'[started[k].worker] = "busy"
            /\ job'[started[k].worker] = started[k].task
            => /\ worker[started[k].worker] = "busy"
               /\ job[started[k].worker] = started[k].task
               /\ todo[started[k].worker] \in Nat
               /\ todo'[started[k].worker] \in Nat
               /\ todo[started[k].worker] <= todo'[started[k].worker]

(* What has been said stays said.                                          *)
LEMMA SaidKept ==
  ASSUME Onward, NEW m, NEW j \in Nat, Said(m, j)
  PROVE  Said(m, j)'
<1> PICK i \in Loops :
        \E x \in DOMAIN body[i] : body[i][x] = m /\ Ran(i, x, j)
  BY DEF Said
<1>1. PICK x \in DOMAIN body[i] : body[i][x] = m /\ Ran(i, x, j)
  OBVIOUS
<1>2. PICK k \in DOMAIN started :
        /\ started[k].task.by = LoopOf[i] /\ started[k].task.n = x
        /\ worker[started[k].worker] = "busy"
             /\ job[started[k].worker] = started[k].task
             => j < todo[started[k].worker]
  BY <1>1 DEF Ran
<1>3. Ran(i, x, j)'
  BY <1>2 DEF Ran, Onward
<1>4. x \in DOMAIN body'[i] /\ body'[i][x] = m
  BY <1>1 DEF Onward
<1> QED
  BY <1>3, <1>4 DEF Said

(* Steps that write nothing keep the order of what is written.             *)
LEMMA QuietStep ==
  ASSUME Sources, MailOrder, RepliesInOrder, Onward,
         UNCHANGED <<mail, wire, example>>
  PROVE  Sources' /\ MailOrder' /\ RepliesInOrder'
<1>1. \A m : \A j \in Loops : Said(m, j) => Said(m, j)'
  BY SaidKept, Consts
<1>2. Sources'
  BY <1>1, Consts DEF Sources, Addressed
<1>3. MailOrder'
  BY DEF MailOrder, Before
<1>4. RepliesInOrder'
  BY DEF RepliesInOrder
<1> QED
  BY <1>2, <1>3, <1>4

-----------------------------------------------------------------------------
(* Steps that leave the closures alone take nothing back.                  *)
LEMMA OnwardSame ==
  ASSUME PoolInv, RTypes, UNCHANGED <<body, started, worker, job, todo>>
  PROVE  Onward
<1>1. \A k \in DOMAIN started : todo[started[k].worker] \in Nat
  BY Elements DEF PoolInv, RTypes
<1> QED
  BY <1>1 DEF Onward

(* Opening and closing a connection.                                       *)
LEMMA OpenClose ==
  ASSUME Inv, NEW c \in Conns, Open(c) \/ Close(c)
  PROVE  RTypes' /\ BodyOrder' /\ OwnTasks' /\ BusyLast' /\ Onward
<1> USE DEF pool, threads, callers, history
<1>1. UNCHANGED <<vars, asked, body, todo, mail, wire>>
  BY DEF Open, Close
<1> PICK h \in Loops : h = Home[c]
  BY Consts
<1>2. c \in HomeOf(h) /\ \A i \in Loops : i # h => c \notin HomeOf(i)
  BY DEF HomeOf
<1>3. state \in [Conns -> {"new", "live", "closed"}]
      /\ members \in [Loops -> SUBSET Conns]
  BY DEF Inv, RTypes
<1>4. \A i \in Loops : /\ IsFiniteSet(members'[i])
                       /\ members'[i] \subseteq Conns
                       /\ members'[i] = {d \in HomeOf(i) : state'[d] = "live"}
  <2> SUFFICES ASSUME NEW i \in Loops
               PROVE  /\ IsFiniteSet(members'[i])
                      /\ members'[i] \subseteq Conns
                      /\ members'[i] = {d \in HomeOf(i) : state'[d] = "live"}
    OBVIOUS
  <2>1. IsFiniteSet(members[i])
        /\ members[i] = {d \in HomeOf(i) : state[d] = "live"}
    BY DEF Inv, RTypes
  <2>2. IsFiniteSet(members[i] \cup {c}) /\ IsFiniteSet(members[i] \ {c})
    BY <2>1, FS_AddElement, FS_RemoveElement
  <2>3. CASE Open(c)
    <3>1. /\ state'[c] = "live" /\ \A d \in Conns \ {c} : state'[d] = state[d]
          /\ members'[h] = members[h] \cup {c}
          /\ \A j \in Loops \ {h} : members'[j] = members[j]
      BY <1>3, <2>3 DEF Open
    <3>2. CASE i = h
      BY <1>2, <2>1, <2>2, <3>1, <3>2 DEF HomeOf
    <3>3. CASE i # h
      BY <1>2, <2>1, <3>1, <3>3 DEF HomeOf
    <3> QED
      BY <3>2, <3>3
  <2>4. CASE Close(c)
    <3>1. /\ state'[c] # "live" /\ \A d \in Conns \ {c} : state'[d] = state[d]
          /\ members'[h] = members[h] \ {c}
          /\ \A j \in Loops \ {h} : members'[j] = members[j]
      BY <1>3, <2>4 DEF Close
    <3>2. CASE i = h
      BY <1>2, <2>1, <2>2, <3>1, <3>2 DEF HomeOf
    <3>3. CASE i # h
      BY <1>2, <2>1, <3>1, <3>3 DEF HomeOf
    <3> QED
      BY <3>2, <3>3
  <2> QED
    BY <2>3, <2>4
<1>5. /\ state' \in [Conns -> {"new", "live", "closed"}]
      /\ members' \in [Loops -> SUBSET Conns]
      /\ since' \in [Conns -> [Conns -> Nat]]
  <2>1. state' \in [Conns -> {"new", "live", "closed"}]
    BY <1>3 DEF Open, Close
  <2>2. members' \in [Loops -> SUBSET Conns]
    BY <1>3 DEF Open, Close
  <2>3. asked \in [Conns -> Nat] /\ since \in [Conns -> [Conns -> Nat]]
    BY DEF Inv, RTypes
  <2>4. since' \in [Conns -> [Conns -> Nat]]
    BY <2>3 DEF Open, Close
  <2> QED
    BY <2>1, <2>2, <2>4
<1>6. RTypes'
  BY <1>1, <1>4, <1>5 DEF Inv, RTypes
<1>7. BodyOrder' /\ OwnTasks' /\ BusyLast'
  BY <1>1 DEF vars, Inv, BodyOrder, OwnTasks, BusyLast
<1> QED
  BY <1>1, <1>6, <1>7, OnwardSame DEF vars, Inv

(* A request is captured and submitted.                                    *)
LEMMA TrafficStep ==
  ASSUME Inv, NEW c \in Conns, Traffic(c)
  PROVE  RTypes' /\ BodyOrder' /\ OwnTasks' /\ BusyLast' /\ Onward
<1> USE DEF pool, threads, callers, history
<1> PICK h \in Loops : h = Home[c]
  BY Consts
<1> PICK t \in Threads : t = LoopOf[h]
  BY Consts
<1> PICK m : m = [from |-> c, n |-> asked[c] + 1]
  OBVIOUS
<1>1. /\ asked' = [asked EXCEPT ![c] = @ + 1]
      /\ body' = [body EXCEPT ![h] = Append(@, m)]
      /\ Submit(t, h)
      /\ UNCHANGED <<state, members, todo, mail, wire, since>>
  BY DEF Traffic
<1>2. /\ calls' = [calls EXCEPT ![t] = @ + 1]
      /\ shard' = [shard EXCEPT ![t] = h]
      /\ at' = [at EXCEPT ![t] = "lock"]
      /\ UNCHANGED <<global, chan, worker, job, started>>
  BY <1>1 DEF Submit
<1>3. asked[c] \in Nat /\ m \in Msgs /\ body[h] \in Seq(Msgs)
      /\ m.from = c /\ m.n = asked[c] + 1
  <2>1. asked[c] \in Nat /\ body[h] \in Seq(Msgs)
    BY DEF Inv, RTypes
  <2>2. m \in Msgs /\ m.from = c /\ m.n = asked[c] + 1
    BY <2>1 DEF Msgs
  <2> QED
    BY <2>1, <2>2
<1>4. /\ body'[h] = Append(body[h], m)
      /\ \A i \in Loops \ {h} : body'[i] = body[i]
  BY <1>1 DEF Inv, RTypes
<1>5. /\ body'[h] \in Seq(Msgs) /\ Len(body'[h]) = Len(body[h]) + 1
      /\ DOMAIN body[h] = 1..Len(body[h]) /\ Len(body[h]) \in Nat
      /\ DOMAIN body'[h] = 1..(Len(body[h]) + 1)
      /\ \A x \in DOMAIN body[h] : body'[h][x] = body[h][x]
      /\ body'[h][Len(body[h]) + 1] = m
  BY <1>3, <1>4, AppendElements
<1>6. asked' \in [Conns -> Nat] /\ asked'[c] = asked[c] + 1
      /\ \A d \in Conns : asked[d] <= asked'[d]
  BY <1>1, <1>3 DEF Inv, RTypes
<1>7. body' \in [Loops -> Seq(Msgs)]
  BY <1>1, <1>4, <1>5 DEF Inv, RTypes
<1>8. RTypes'
  BY <1>1, <1>6, <1>7 DEF Inv, RTypes
<1>9. BodyOrder'
  <2> SUFFICES ASSUME NEW i \in Loops
               PROVE  /\ Len(body'[i]) = calls'[LoopOf[i]]
                      /\ \A x \in DOMAIN body'[i] :
                           /\ Home[body'[i][x].from] = i
                           /\ body'[i][x].n <= asked'[body'[i][x].from]
                      /\ \A x, y \in DOMAIN body'[i] :
                           x < y => Before(body'[i][x], body'[i][y])
    BY DEF BodyOrder, Before
  <2>1. \A x \in DOMAIN body[i] :
          /\ body[i][x] \in Msgs
          /\ Home[body[i][x].from] = i
          /\ body[i][x].n <= asked[body[i][x].from]
    BY SeqElement DEF Inv, BodyOrder, RTypes
  <2>2. \A x \in DOMAIN body[i] :
          /\ body[i][x].n <= asked'[body[i][x].from]
          /\ Before(body[i][x], m)
    <3> SUFFICES ASSUME NEW x \in DOMAIN body[i]
                 PROVE  /\ body[i][x].n <= asked'[body[i][x].from]
                        /\ Before(body[i][x], m)
      OBVIOUS
    <3>1. PICK d \in Conns, k \in Nat :
            body[i][x].from = d /\ body[i][x].n = k /\ k <= asked[d]
      BY <2>1 DEF Msgs
    <3>2. asked[d] \in Nat /\ asked'[d] \in Nat /\ asked[d] <= asked'[d]
      BY <1>6 DEF Inv, RTypes
    <3>3. k <= asked'[d]
      BY <3>1, <3>2
    <3>4. d = c => k < m.n
      BY <1>3, <3>1, <3>2
    <3> QED
      BY <1>3, <3>1, <3>3, <3>4 DEF Before
  <2>3. LoopOf[i] \in Threads /\ calls[LoopOf[i]] \in Nat
    BY Consts DEF Inv, PoolInv, TypeInv, TypeOK
  <2>4. CASE i # h
    <3>1. calls'[LoopOf[i]] = calls[LoopOf[i]]
      BY <1>2, <2>3, <2>4, Consts
    <3> QED
      BY <1>4, <2>1, <2>2, <2>4, <3>1 DEF Inv, BodyOrder
  <2>5. CASE i = h
    <3>1. calls'[t] = calls[t] + 1 /\ Len(body[h]) = calls[t]
      BY <1>2, <2>3, <2>5 DEF Inv, BodyOrder, PoolInv, TypeInv, TypeOK
    <3>2. \A x \in DOMAIN body'[h] :
            x \in DOMAIN body[h] \/ x = Len(body[h]) + 1
      BY <1>5
    <3>3. ASSUME NEW x \in DOMAIN body'[h]
          PROVE  /\ Home[body'[h][x].from] = h
                 /\ body'[h][x].n <= asked'[body'[h][x].from]
      <4>1. CASE x \in DOMAIN body[h]
        BY <1>5, <2>1, <2>2, <2>5, <4>1
      <4>2. CASE x = Len(body[h]) + 1
        BY <1>3, <1>5, <1>6, <4>2
      <4> QED
        BY <3>2, <4>1, <4>2
    <3>4. ASSUME NEW x \in DOMAIN body'[h], NEW y \in DOMAIN body'[h], x < y
          PROVE  Before(body'[h][x], body'[h][y])
      <4>1. x \in DOMAIN body[h]
        BY <1>5, <3>4
      <4>2. CASE y \in DOMAIN body[h]
        BY <1>5, <3>4, <4>1, <4>2 DEF Inv, BodyOrder
      <4>3. CASE y = Len(body[h]) + 1
        BY <1>5, <2>2, <2>5, <4>1, <4>3
      <4> QED
        BY <3>2, <4>2, <4>3
    <3> QED
      BY <1>5, <2>5, <3>1, <3>3, <3>4
  <2> QED
    BY <2>4, <2>5
<1>10. OwnTasks'
  <2>1. calls[t] \in Nat /\ calls'[t] = calls[t] + 1 /\ at'[t] = "lock"
        /\ shard'[t] = h
        /\ \A u \in Threads \ {t} : /\ calls'[u] = calls[u]
                                    /\ at'[u] = at[u] /\ shard'[u] = shard[u]
    BY <1>2 DEF Inv, PoolInv, TypeInv, TypeOK
  <2>2. \A u \in Threads : at'[u] # "out" =>
          calls'[u] > 0 /\ \E i \in Loops : u = LoopOf[i] /\ shard'[u] = i
    BY <2>1 DEF Inv, OwnTasks
  <2> QED
    BY <1>2, <2>2 DEF Inv, OwnTasks
<1>11. BusyLast'
  BY <1>2 DEF Inv, BusyLast
<1>12. Onward
  <2>1. \A i \in Loops : \A x \in DOMAIN body[i] :
          x \in DOMAIN body'[i] /\ body'[i][x] = body[i][x]
    BY <1>4, <1>5
  <2>2. \A k \in DOMAIN started : todo[started[k].worker] \in Nat
    BY Elements DEF Inv, PoolInv, RTypes
  <2> QED
    BY <1>1, <1>2, <2>1, <2>2 DEF Onward
<1> QED
  BY <1>8, <1>9, <1>10, <1>11, <1>12

(* A loop inside submit goes on: it may send its own task to its own       *)
(* worker.                                                                 *)
LEMMA BlockedStep ==
  ASSUME Inv, NEW i \in Loops, Blocked(i)
  PROVE  RTypes' /\ BodyOrder' /\ OwnTasks' /\ BusyLast' /\ Onward
<1> USE DEF pool, threads, callers, history
<1> PICK t \in Threads : t = LoopOf[i]
  BY Consts
<1>1. UNCHANGED <<state, members, asked, body, todo, mail, wire, since>>
      /\ Submitting(t)
  BY DEF Blocked, replies
<1>2. UNCHANGED <<global, worker, job, calls, started>>
  BY <1>1 DEF Submitting, ReadLock, Send, SendFails
<1>3. RTypes' /\ BodyOrder' /\ BusyLast'
  BY <1>1, <1>2 DEF Inv, RTypes, BodyOrder, BusyLast
<1>4. \A u \in Threads :
        at'[u] # "out" => at[u] # "out" /\ shard'[u] = shard[u]
  BY <1>1 DEF Submitting, ReadLock, Send, SendFails, Return, Inv, PoolInv,
     TypeInv, TypeOK
<1>5. \A u \in Threads : at'[u] # "out" =>
        calls'[u] > 0 /\ \E j \in Loops : u = LoopOf[j] /\ shard'[u] = j
  BY <1>2, <1>4 DEF Inv, OwnTasks
<1>6. \A w \in WorkerIds : \A x \in DOMAIN chan'[w] :
        w[1] = global /\ \E j \in Loops : LoopTask(chan'[w][x], j)
  <2>1. CASE ReadLock(t) \/ SendFails(t)
    BY <2>1 DEF ReadLock, SendFails, Inv, OwnTasks
  <2>2. CASE Send(t)
    <3>1. at[t] = "send"
      BY <2>2 DEF Send
    <3>2. /\ Target(t) \in WorkerIds /\ InHand(t) \in Tasks
          /\ Target(t)[1] = global
      BY <3>1, TargetType DEF Inv, PoolInv
    <3> PICK v \in WorkerIds, c \in Tasks : v = Target(t) /\ c = InHand(t)
      BY <3>2
    <3>3. chan' = [chan EXCEPT ![v] = Append(@, c)] /\ v[1] = global
      BY <2>2, <3>2 DEF Send
    <3>4. LoopTask(c, i)
      <4>1. calls[t] > 0 /\ shard[t] = i
        BY <3>1, Consts DEF Inv, OwnTasks
      <4> QED
        BY <4>1 DEF LoopTask, InHand
    <3>5. chan \in [WorkerIds -> Seq(Tasks)]
      BY DEF Inv, PoolInv, TypeInv, TypeOK
    <3>6. \A w \in WorkerIds \ {v} : chan'[w] = chan[w]
      BY <3>3, <3>5
    <3>7. \A x \in DOMAIN chan'[v] :
            chan'[v][x] = c \/ (x \in DOMAIN chan[v] /\ chan'[v][x] = chan[v][x])
      <4>1. chan'[v] = Append(chan[v], c) /\ chan[v] \in Seq(Tasks)
        BY <3>3, <3>5
      <4> QED
        BY <4>1, AppendElements
    <3> QED
      BY <3>3, <3>4, <3>6, <3>7 DEF Inv, OwnTasks
  <2> QED
    BY <1>1, <2>1, <2>2 DEF Submitting
<1>7. OwnTasks'
  BY <1>2, <1>5, <1>6 DEF Inv, OwnTasks, LoopTask
<1> QED
  BY <1>1, <1>2, <1>3, <1>7, OnwardSame DEF Inv

(* A worker begins the first task of its channel, which is none of those   *)
(* it has begun before.                                                    *)
LEMMA BeginStep ==
  ASSUME Inv, NEW w \in WorkerIds, BeginTask(w)
  PROVE  RTypes' /\ BodyOrder' /\ OwnTasks' /\ BusyLast' /\ Onward
<1> USE DEF pool, threads, callers, history
<1>1. chan[w] \in Seq(Tasks) /\ chan[w] # <<>>
  BY DEF BeginTask, Begin, Inv, PoolInv, TypeInv, TypeOK
<1>2. Head(chan[w]) \in Tasks /\ 1 \in DOMAIN chan[w] /\ Head(chan[w]) = chan[w][1]
      /\ \A x \in DOMAIN Tail(chan[w]) :
           x + 1 \in DOMAIN chan[w] /\ Tail(chan[w])[x] = chan[w][x + 1]
  BY <1>1, TailElements
<1> PICK c \in Tasks : c = Head(chan[w])
  BY <1>2
<1> PICK e : e = [task |-> c, worker |-> w]
  OBVIOUS
<1>3. e \in [task : Tasks, worker : WorkerIds] /\ e.task = c /\ e.worker = w
  OBVIOUS
<1>4. /\ chan'[w] = Tail(chan[w])
      /\ worker'[w] = "busy" /\ job'[w] = c /\ todo'[w] = 0
      /\ \A v \in WorkerIds \ {w} :
           /\ chan'[v] = chan[v] /\ worker'[v] = worker[v]
           /\ job'[v] = job[v] /\ todo'[v] = todo[v]
      /\ todo' = [todo EXCEPT ![w] = 0]
  BY DEF BeginTask, Begin, Inv, PoolInv, TypeInv, TypeOK, RTypes
<1>5. /\ started' = Append(started, e)
      /\ UNCHANGED <<global, calls, at, shard>>
      /\ UNCHANGED <<state, members, asked, body, mail, wire, since>>
  BY DEF BeginTask, Begin
<1>6. started \in Seq([task : Tasks, worker : WorkerIds])
  BY DEF Inv, PoolInv, TypeInv, TypeOK
<1>7. /\ DOMAIN started = 1..Len(started) /\ Len(started) \in Nat
      /\ DOMAIN started' = 1..(Len(started) + 1)
      /\ \A k \in DOMAIN started : started'[k] = started[k]
      /\ started'[Len(started) + 1] = e
  BY <1>3, <1>5, <1>6, AppendElements
<1>8. RTypes'
  <2>1. todo' \in [WorkerIds -> Nat]
    BY <1>4 DEF Inv, RTypes
  <2> QED
    BY <1>5, <2>1 DEF Inv, RTypes
<1>9. BodyOrder'
  BY <1>5 DEF Inv, BodyOrder
<1>10. OwnTasks'
  <2>1. w[1] = global /\ \E i \in Loops : LoopTask(c, i)
    BY <1>2 DEF Inv, OwnTasks
  <2>2. \A v \in WorkerIds : \A x \in DOMAIN chan'[v] :
          \E y \in DOMAIN chan[v] : chan'[v][x] = chan[v][y]
    <3>1. \A x \in DOMAIN chan'[w] :
            \E y \in DOMAIN chan[w] : chan'[w][x] = chan[w][y]
      <4> SUFFICES ASSUME NEW x \in DOMAIN chan'[w]
                   PROVE  \E y \in DOMAIN chan[w] : chan'[w][x] = chan[w][y]
        OBVIOUS
      <4>1. x \in DOMAIN Tail(chan[w]) /\ chan'[w][x] = Tail(chan[w])[x]
        BY <1>4
      <4>2. x + 1 \in DOMAIN chan[w] /\ chan'[w][x] = chan[w][x + 1]
        BY <1>2, <4>1
      <4> QED
        BY <4>2
    <3>2. \A v \in WorkerIds : v # w => chan'[v] = chan[v]
      BY <1>4
    <3> QED
      BY <3>1, <3>2, Zenon
  <2>3. \A v \in WorkerIds : \A x \in DOMAIN chan'[v] :
          v[1] = global /\ \E i \in Loops : LoopTask(chan'[v][x], i)
    BY <2>2 DEF Inv, OwnTasks
  <2>4. \A k \in DOMAIN started' :
          k \in DOMAIN started \/ k = Len(started) + 1
    BY <1>7
  <2>5. ASSUME NEW k \in DOMAIN started'
        PROVE  started'[k].worker[1] = global
                 /\ \E i \in Loops : LoopTask(started'[k].task, i)
    <3>1. CASE k \in DOMAIN started
      BY <1>7, <3>1 DEF Inv, OwnTasks
    <3>2. CASE k = Len(started) + 1
      BY <1>3, <1>7, <2>1, <3>2
    <3> QED
      BY <2>4, <3>1, <3>2
  <2> QED
    BY <1>5, <2>3, <2>5 DEF Inv, OwnTasks, LoopTask
<1>11. BusyLast'
  <2> SUFFICES ASSUME NEW v \in WorkerIds, worker'[v] = "busy"
               PROVE  \E l \in DOMAIN started' :
                        /\ started'[l].task = job'[v] /\ started'[l].worker = v
                        /\ \A k \in DOMAIN started' :
                             l < k => started'[k].worker # v
    BY DEF BusyLast
  <2>1. CASE v = w
    <3>1. Len(started) + 1 \in DOMAIN started'
          /\ \A k \in DOMAIN started' : ~(Len(started) + 1 < k)
      BY <1>7
    <3> QED
      BY <1>3, <1>4, <1>7, <2>1, <3>1
  <2>2. CASE v # w
    <3>1. worker[v] = "busy" /\ job'[v] = job[v]
      BY <1>4, <2>2
    <3>2. PICK l \in DOMAIN started :
            /\ started[l].task = job[v] /\ started[l].worker = v
            /\ \A k \in DOMAIN started : l < k => started[k].worker # v
      BY <3>1 DEF Inv, BusyLast
    <3>3. l \in DOMAIN started' /\ started'[l] = started[l]
      BY <1>7
    <3>4. ASSUME NEW k \in DOMAIN started', l < k
          PROVE  started'[k].worker # v
      <4>1. k \in DOMAIN started \/ k = Len(started) + 1
        BY <1>7
      <4> QED
        BY <1>3, <1>7, <2>2, <3>2, <3>4, <4>1
    <3> QED
      BY <3>1, <3>2, <3>3, <3>4
  <2> QED
    BY <2>1, <2>2
<1>12. Onward
  <2>1. \A i \in Loops : \A x \in DOMAIN body[i] :
          x \in DOMAIN body'[i] /\ body'[i][x] = body[i][x]
    BY <1>5
  <2>2. ASSUME NEW k \in DOMAIN started,
               worker'[started[k].worker] = "busy",
               job'[started[k].worker] = started[k].task
        PROVE  /\ worker[started[k].worker] = "busy"
               /\ job[started[k].worker] = started[k].task
               /\ todo[started[k].worker] \in Nat
               /\ todo'[started[k].worker] = todo[started[k].worker]
    <3> PICK v \in WorkerIds : v = started[k].worker
      BY Elements DEF Inv, PoolInv
    <3>1. v # w
      <4> SUFFICES ASSUME v = w PROVE FALSE
        OBVIOUS
      <4>1. Older(started[k].task, chan[w][1])
        BY <1>2 DEF Inv, PoolInv, OrderInv, ChannelOrder
      <4>2. started[k].task = c /\ c = chan[w][1]
        BY <1>2, <1>4, <2>2
      <4>3. c.n \in Nat
        BY DEF Tasks
      <4> QED
        BY <4>1, <4>2, <4>3 DEF Older
    <3> QED
      BY <1>4, <2>2, <3>1 DEF Inv, RTypes
  <2>3. \A k \in DOMAIN started : k \in DOMAIN started' /\ started'[k] = started[k]
    BY <1>7
  <2> QED
    BY <2>1, <2>2, <2>3 DEF Onward
<1> QED
  BY <1>8, <1>9, <1>10, <1>11, <1>12

(* A closure returns, or a pool is made: no worker becomes busy.           *)
LEMMA RestStep ==
  ASSUME Inv,
         \/ \E w \in WorkerIds : FinishTask(w)
         \/ \E p \in Pools : StartPool(p) \/ PoolStep(p)
  PROVE  RTypes' /\ BodyOrder' /\ OwnTasks' /\ BusyLast' /\ Onward
<1> USE DEF pool, threads, callers, history
<1>1. UNCHANGED <<state, members, asked, body, todo, mail, wire, since>>
  BY DEF FinishTask, StartPool, PoolStep, replies
<1>2. UNCHANGED <<chan, at, shard, calls, started>>
  BY DEF FinishTask, StartPool, PoolStep, Finish, New, Install
<1>3. \A v \in WorkerIds :
        worker'[v] = "busy" => worker[v] = "busy" /\ job'[v] = job[v]
  <2>1. ASSUME NEW w \in WorkerIds, Finish(w), NEW v \in WorkerIds,
               worker'[v] = "busy"
        PROVE  worker[v] = "busy" /\ job'[v] = job[v]
    BY <2>1 DEF Finish, Inv, PoolInv, TypeInv, TypeOK
  <2>2. ASSUME NEW p \in Pools, New(p) \/ Install(p), NEW v \in WorkerIds,
               worker'[v] = "busy"
        PROVE  worker[v] = "busy" /\ job'[v] = job[v]
    BY <2>2 DEF New, Install
  <2> QED
    BY <2>1, <2>2 DEF FinishTask, StartPool, PoolStep
<1>4. global' = global \/ global = None
  BY DEF FinishTask, StartPool, PoolStep, Finish, New, Install
<1>5. RTypes' /\ BodyOrder'
  BY <1>1, <1>2 DEF Inv, RTypes, BodyOrder
<1>6. OwnTasks'
  <2>1. CASE global' = global
    BY <1>2, <2>1 DEF Inv, OwnTasks
  <2>2. CASE global = None
    <3>1. \A w \in WorkerIds : w[1] # None
      BY WorkerPoolAssumption DEF WorkerIds
    <3>2. \A w \in WorkerIds : \A x \in DOMAIN chan[w] : FALSE
      BY <2>2, <3>1 DEF Inv, OwnTasks
    <3>3. \A k \in DOMAIN started : FALSE
      BY <2>2, <3>1, Elements DEF Inv, OwnTasks, PoolInv
    <3> QED
      BY <1>2, <3>2, <3>3 DEF Inv, OwnTasks
  <2> QED
    BY <1>4, <2>1, <2>2
<1>7. BusyLast'
  BY <1>2, <1>3 DEF Inv, BusyLast
<1>8. Onward
  <2>1. \A k \in DOMAIN started : started[k].worker \in WorkerIds
    BY Elements DEF Inv, PoolInv
  <2> QED
    BY <1>1, <1>2, <1>3, <2>1 DEF Onward, Inv, RTypes
<1> QED
  BY <1>5, <1>6, <1>7, <1>8

(* The loop takes the first of its commands and writes it, or drops it.    *)
LEMMA WriteStep ==
  ASSUME Inv, NEW i \in Loops, Write(i)
  PROVE  /\ RTypes' /\ BodyOrder' /\ OwnTasks' /\ BusyLast' /\ Onward
         /\ Sources' /\ MailOrder' /\ RepliesInOrder'
<1> USE DEF pool, threads, callers, history
<1>1. mail[i] \in Seq(Mails) /\ mail[i] # <<>>
  BY DEF Write, Inv, RTypes
<1>2. /\ Tail(mail[i]) \in Seq(Mails)
      /\ 1 \in DOMAIN mail[i] /\ Head(mail[i]) = mail[i][1]
      /\ Head(mail[i]) \in Mails
      /\ DOMAIN mail[i] = 1..Len(mail[i]) /\ Len(mail[i]) \in Nat
      /\ \A x \in DOMAIN Tail(mail[i]) :
           /\ x \in Nat \ {0} /\ x + 1 \in DOMAIN mail[i]
           /\ Tail(mail[i])[x] = mail[i][x + 1]
  BY <1>1, TailElements
<1> PICK e \in Mails : e = Head(mail[i])
  BY <1>2
<1> PICK c \in Conns, m \in Msgs : c = e.to /\ m = e.msg
  BY DEF Mails
<1>3. /\ mail' = [mail EXCEPT ![i] = Tail(@)]
      /\ UNCHANGED <<example, vars, state, members, asked, body, todo, since>>
      /\ \/ wire' = [wire EXCEPT ![c] = Append(@, m)]
         \/ wire' = wire
  BY DEF Write
<1>4. /\ mail'[i] = Tail(mail[i])
      /\ \A j \in Loops \ {i} : mail'[j] = mail[j]
      /\ mail' \in [Loops -> Seq(Mails)]
  BY <1>2, <1>3 DEF Inv, RTypes
<1>5. wire \in [Conns -> Seq(Msgs)]
  BY DEF Inv, RTypes
<1>6. /\ wire' \in [Conns -> Seq(Msgs)]
      /\ \A d \in Conns : \A k \in DOMAIN wire'[d] :
           k \in DOMAIN wire[d] => wire'[d][k] = wire[d][k]
      /\ \A d \in Conns : \A k \in DOMAIN wire'[d] :
           k \in DOMAIN wire[d] \/ (d = c /\ wire'[d][k] = m /\ k = Len(wire[c]) + 1)
      /\ \A d \in Conns : DOMAIN wire[d] = 1..Len(wire[d]) /\ Len(wire[d]) \in Nat
  <2>0. \A d \in Conns : DOMAIN wire[d] = 1..Len(wire[d]) /\ Len(wire[d]) \in Nat
    BY <1>5
  <2>1. CASE wire' = wire
    BY <1>5, <2>0, <2>1
  <2>2. CASE wire' = [wire EXCEPT ![c] = Append(@, m)]
    <3>1. wire'[c] = Append(wire[c], m) /\ wire[c] \in Seq(Msgs)
          /\ \A d \in Conns \ {c} : wire'[d] = wire[d]
      BY <1>5, <2>2
    <3>2. /\ wire'[c] \in Seq(Msgs)
          /\ \A k \in DOMAIN wire[c] : wire'[c][k] = wire[c][k]
          /\ \A k \in DOMAIN wire'[c] :
               k \in DOMAIN wire[c] \/ (k = Len(wire[c]) + 1 /\ wire'[c][k] = m)
      BY <3>1, AppendElements
    <3>3. wire' \in [Conns -> Seq(Msgs)]
      BY <1>5, <2>2, <3>1, <3>2
    <3> QED
      BY <2>0, <3>1, <3>2, <3>3
  <2> QED
    BY <1>3, <2>1, <2>2
<1>7. RTypes'
  BY <1>3, <1>4, <1>6 DEF Inv, RTypes
<1>8. BodyOrder' /\ OwnTasks' /\ BusyLast'
  BY <1>3 DEF vars, Inv, BodyOrder, OwnTasks, BusyLast
<1>9. Onward
  BY <1>3, OnwardSame DEF vars, Inv
<1>10. /\ Home[c] = i /\ Said(m, i) /\ c \in Addressed(m.from)
       /\ \A k \in DOMAIN wire[c] : Before(wire[c][k], m)
  <2>1. mail[i][1].to = c /\ mail[i][1].msg = m
    BY <1>2
  <2>2. /\ Home[mail[i][1].to] = i /\ Said(mail[i][1].msg, i)
        /\ mail[i][1].to \in Addressed(mail[i][1].msg.from)
    BY <1>2 DEF Inv, Sources
  <2>3. \A k \in DOMAIN wire[mail[i][1].to] :
          Before(wire[mail[i][1].to][k], mail[i][1].msg)
    BY <1>2 DEF Inv, MailOrder
  <2> QED
    BY <2>1, <2>2, <2>3
<1>11. \A o : \A j \in Loops : Said(o, j) => Said(o, j)'
  BY <1>9, SaidKept, Consts
<1>12. \A d : Addressed(d)' = Addressed(d)
  BY <1>3 DEF Addressed
<1>13. \A j \in Loops : \A x \in DOMAIN mail'[j] :
         \E y \in DOMAIN mail[j] :
           mail'[j][x] = mail[j][y] /\ (j = i => y = x + 1)
  <2>1. ASSUME NEW x \in DOMAIN mail'[i]
        PROVE  x + 1 \in DOMAIN mail[i] /\ mail'[i][x] = mail[i][x + 1]
    BY <1>2, <1>4, <2>1
  <2>2. \A j \in Loops : j # i => mail'[j] = mail[j]
    BY <1>4
  <2> QED
    BY <2>1, <2>2, Zenon
<1>14. Sources'
  <2>1. ASSUME NEW j \in Loops, NEW x \in DOMAIN mail'[j]
        PROVE  /\ Home[mail'[j][x].to] = j /\ Said(mail[j][x].msg, j)'
               /\ mail'[j][x].to \in Addressed(mail'[j][x].msg.from)
    <3>1. PICK y \in DOMAIN mail[j] : mail'[j][x] = mail[j][y]
      BY <1>13
    <3>2. /\ Home[mail[j][y].to] = j /\ Said(mail[j][y].msg, j)
          /\ mail[j][y].to \in Addressed(mail[j][y].msg.from)
      BY DEF Inv, Sources
    <3>3. PICK o : o = mail[j][y].msg
      OBVIOUS
    <3>4. Said(o, j)'
      BY <1>11, <3>2, <3>3
    <3>5. o = mail'[j][x].msg
      BY <3>1, <3>3
    <3> QED
      BY <3>1, <3>2, <3>4, <3>5
  <2>2. ASSUME NEW d \in Conns, NEW k \in DOMAIN wire'[d]
        PROVE  Said(wire[d][k], Home[d])' /\ d \in Addressed(wire'[d][k].from)
    <3>1. PICK o : o = wire'[d][k]
      OBVIOUS
    <3>2. Said(o, Home[d]) /\ d \in Addressed(o.from)
      BY <1>6, <1>10, <3>1 DEF Inv, Sources
    <3>3. Said(o, Home[d])'
      BY <1>11, <3>2, Consts
    <3> QED
      BY <3>1, <3>2, <3>3
  <2> QED
    BY <1>12, <2>1, <2>2 DEF Sources
<1>15. MailOrder'
  <2>1. ASSUME NEW j \in Loops, NEW x \in DOMAIN mail'[j],
               NEW y \in DOMAIN mail'[j], x < y,
               mail'[j][x].to = mail'[j][y].to
        PROVE  Before(mail'[j][x].msg, mail'[j][y].msg)
    <3>1. CASE j = i
      <4>1. /\ x + 1 \in DOMAIN mail[i] /\ y + 1 \in DOMAIN mail[i]
            /\ x + 1 < y + 1
            /\ mail'[i][x] = mail[i][x + 1] /\ mail'[i][y] = mail[i][y + 1]
        <5>1. /\ x \in DOMAIN Tail(mail[i]) /\ y \in DOMAIN Tail(mail[i])
              /\ mail'[i] = Tail(mail[i])
          BY <1>4, <3>1
        <5> QED
          BY <1>2, <2>1, <5>1
      <4> QED
        BY <2>1, <3>1, <4>1 DEF Inv, MailOrder
    <3>2. CASE j # i
      BY <1>4, <2>1, <3>2 DEF Inv, MailOrder
    <3> QED
      BY <3>1, <3>2
  <2>2. ASSUME NEW j \in Loops, NEW x \in DOMAIN mail'[j],
               NEW k \in DOMAIN wire'[mail'[j][x].to]
        PROVE  Before(wire'[mail'[j][x].to][k], mail'[j][x].msg)
    <3>1. PICK y \in DOMAIN mail[j] :
            mail'[j][x] = mail[j][y] /\ (j = i => y = x + 1)
      BY <1>13
    <3>2. mail[j][y] \in Mails
      BY SeqElement DEF Inv, RTypes
    <3> PICK d \in Conns : d = mail[j][y].to
      BY <3>2 DEF Mails
    <3>3. CASE k \in DOMAIN wire[d]
      <4>1. Before(wire[d][k], mail[j][y].msg)
        BY <3>3 DEF Inv, MailOrder
      <4>2. mail'[j][x].to = d /\ k \in DOMAIN wire'[d]
        BY <2>2, <3>1
      <4>3. wire'[d][k] = wire[d][k]
        BY <1>6, <3>3, <4>2
      <4> QED
        BY <3>1, <4>1, <4>2, <4>3
    <3>4. CASE d = c /\ wire'[d][k] = m
      <4>1. Home[d] = j
        BY DEF Inv, Sources
      <4>2. j = i
        BY <1>10, <3>4, <4>1
      <4>3. y = x + 1 /\ 1 < y
        BY <1>2, <1>4, <3>1, <4>2
      <4>4. Before(mail[i][1].msg, mail[i][y].msg)
        BY <1>2, <3>1, <3>4, <4>2, <4>3 DEF Inv, MailOrder
      <4> QED
        BY <1>2, <3>1, <3>4, <4>2, <4>4
    <3> QED
      BY <1>6, <2>2, <3>1, <3>3, <3>4
  <2> QED
    BY <2>1, <2>2 DEF MailOrder, Before
<1>16. RepliesInOrder'
  <2> SUFFICES ASSUME NEW d \in Conns, NEW k \in DOMAIN wire'[d],
                      NEW l \in DOMAIN wire'[d], k < l,
                      wire'[d][k].from = wire'[d][l].from
               PROVE  wire'[d][k].n < wire'[d][l].n
    BY DEF RepliesInOrder
  <2>1. CASE k \in DOMAIN wire[d] /\ l \in DOMAIN wire[d]
    BY <1>6, <2>1 DEF Inv, RepliesInOrder
  <2>2. CASE k \in DOMAIN wire[d] /\ d = c /\ wire'[d][l] = m
    BY <1>6, <1>10, <2>2 DEF Before
  <2>3. k \notin DOMAIN wire[d] => FALSE
    BY <1>6
  <2> QED
    BY <1>6, <2>1, <2>2, <2>3
<1> QED
  BY <1>7, <1>8, <1>9, <1>14, <1>15, <1>16

-----------------------------------------------------------------------------
(* One sequence behind another.                                            *)
LEMMA CatElements ==
  ASSUME NEW S, NEW q \in Seq(S), NEW r \in Seq(S)
  PROVE  /\ q \o r \in Seq(S)
         /\ DOMAIN q = 1..Len(q) /\ Len(q) \in Nat
         /\ DOMAIN (q \o r) = 1..(Len(q) + Len(r)) /\ Len(r) \in Nat
         /\ \A x \in DOMAIN q : x \in DOMAIN (q \o r) /\ (q \o r)[x] = q[x]
         /\ \A x \in DOMAIN r : /\ Len(q) + x \in DOMAIN (q \o r)
                                /\ (q \o r)[Len(q) + x] = r[x]
         /\ \A x \in DOMAIN (q \o r) : x \notin DOMAIN q =>
              x - Len(q) \in DOMAIN r /\ (q \o r)[x] = r[x - Len(q)]
  OBVIOUS

(* What a busy worker is running, and what the closure captured.           *)
LEMMA Running ==
  ASSUME Inv, NEW w \in WorkerIds, worker[w] = "busy"
  PROVE  \E i \in Loops : \E l \in DOMAIN started :
           /\ job[w] \in Tasks /\ LoopTask(job[w], i) /\ w = Lane(i)
           /\ job[w].n \in DOMAIN body[i] /\ Captured(job[w]) = body[i][job[w].n]
           /\ Captured(job[w]) \in Msgs /\ Home[Captured(job[w]).from] = i
           /\ started[l].task = job[w] /\ started[l].worker = w
           /\ \A k \in DOMAIN started : l < k => started[k].worker # w
<1>1. PICK l \in DOMAIN started :
        /\ started[l].task = job[w] /\ started[l].worker = w
        /\ \A k \in DOMAIN started : l < k => started[k].worker # w
  BY DEF Inv, BusyLast
<1>2. PICK i \in Loops : LoopTask(started[l].task, i) /\ started[l].worker = Lane(i)
  BY StartedTask DEF Inv
<1>3. started[l].task \in Tasks /\ Sent(started[l].task, calls, at)
  BY StartedTask DEF Inv
<1>4. PICK c \in Tasks : c = job[w]
  BY <1>1, <1>3
<1>5. LoopTask(c, i) /\ Sent(c, calls, at) /\ w = Lane(i)
  BY <1>1, <1>2, <1>3, <1>4
<1>6. /\ c.n \in DOMAIN body[i] /\ Captured(c) = body[i][c.n]
      /\ body[i][c.n] \in Msgs
  BY <1>5, CapturedBody DEF Inv
<1>7. Home[body[i][c.n].from] = i
  BY <1>6 DEF Inv, BodyOrder
<1> QED
  BY <1>1, <1>4, <1>5, <1>6, <1>7

(* What has been said to a shard that a running closure comes to only now  *)
(* was said before: by an earlier task of the same worker, if the sender   *)
(* is the same.                                                            *)
LEMMA SaidBefore ==
  ASSUME Inv, NEW w \in WorkerIds, worker[w] = "busy",
         NEW j \in Nat, j = todo[w], NEW o, Said(o, j)
  PROVE  Before(o, Captured(job[w]))
<1> PICK h \in Loops :
      \E l \in DOMAIN started :
           /\ job[w] \in Tasks /\ LoopTask(job[w], h) /\ w = Lane(h)
           /\ job[w].n \in DOMAIN body[h] /\ Captured(job[w]) = body[h][job[w].n]
           /\ Captured(job[w]) \in Msgs /\ Home[Captured(job[w]).from] = h
           /\ started[l].task = job[w] /\ started[l].worker = w
           /\ \A k \in DOMAIN started : l < k => started[k].worker # w
  BY Running
<1>1. PICK l \in DOMAIN started :
           /\ job[w] \in Tasks /\ LoopTask(job[w], h) /\ w = Lane(h)
           /\ job[w].n \in DOMAIN body[h] /\ Captured(job[w]) = body[h][job[w].n]
           /\ Captured(job[w]) \in Msgs /\ Home[Captured(job[w]).from] = h
           /\ started[l].task = job[w] /\ started[l].worker = w
           /\ \A k \in DOMAIN started : l < k => started[k].worker # w
  OBVIOUS
<1> PICK i \in Loops :
      \E x \in DOMAIN body[i] : body[i][x] = o /\ Ran(i, x, j)
  BY DEF Said
<1>2. PICK x \in DOMAIN body[i] : body[i][x] = o /\ Ran(i, x, j)
  OBVIOUS
<1>3. PICK k \in DOMAIN started :
        /\ started[k].task.by = LoopOf[i] /\ started[k].task.n = x
        /\ worker[started[k].worker] = "busy"
             /\ job[started[k].worker] = started[k].task
             => j < todo[started[k].worker]
  BY <1>2 DEF Ran
<1> SUFFICES ASSUME o.from = Captured(job[w]).from
             PROVE  o.n < Captured(job[w]).n
  BY DEF Before
<1>4. i = h
  BY <1>1, <1>2 DEF Inv, BodyOrder
<1>5. PICK g \in Loops : LoopTask(started[k].task, g) /\ started[k].worker = Lane(g)
  BY StartedTask DEF Inv
<1>6. started[k].worker = w
  BY <1>1, <1>3, <1>4, <1>5, Consts DEF LoopTask
<1>7. k # l
  BY <1>1, <1>3, <1>6
<1>8. k < l
  <2>1. k \in Nat /\ l \in Nat
    BY DEF Inv, PoolInv, TypeInv, TypeOK
  <2> QED
    BY <1>1, <1>6, <1>7, <2>1
<1>9. started[k].task.n < started[l].task.n
  BY <1>1, <1>3, <1>4, <1>6, <1>8
     DEF Inv, PoolInv, OrderInv, StartedOrder, Older, LoopTask
<1>10. x < job[w].n
  BY <1>1, <1>3, <1>9
<1> QED
  BY <1>1, <1>2, <1>4, <1>10 DEF Inv, BodyOrder, Before

(* A sequence of writes reaches all of R.                                  *)
Covers(q, R) == \A c \in R : \E x \in DOMAIN q : q[x].to = c

(* The writes a closure makes to one shard: its message, to connections of *)
(* that loop, to each once.                                                *)
LEMMA WritesOf ==
  ASSUME Inv, NEW w \in WorkerIds, worker[w] = "busy", NEW j \in Loops,
         NEW m \in Msgs, m = Captured(job[w])
  PROVE  /\ Writes(w, j) \in Seq(Mails)
         /\ \A x \in DOMAIN Writes(w, j) :
              /\ Writes(w, j)[x].msg = m /\ Home[Writes(w, j)[x].to] = j
              /\ Writes(w, j)[x].to \in Addressed(m.from)
         /\ \A x, y \in DOMAIN Writes(w, j) :
              Writes(w, j)[x].to = Writes(w, j)[y].to => x = y
         /\ Covers(Writes(w, j), Recipients(m, j))
<1> PICK R : R = Recipients(m, j)
  OBVIOUS
<1>1. PICK S : S = {[to |-> c, msg |-> m] : c \in R}
  OBVIOUS
<1>2. IsFiniteSet(members[j]) /\ members[j] \subseteq HomeOf(j)
  BY DEF Inv, RTypes
<1>3. m.from \in Conns
  BY DEF Msgs
<1>4. /\ IsFiniteSet(R)
      /\ \A c \in R : c \in Conns /\ Home[c] = j /\ c \in Addressed(m.from)
  <2>1. CASE example = "chat"
    <3>1. R = members[j] \ {m.from}
      BY <2>1 DEF Recipients
    <3>2. IsFiniteSet(R)
      BY <1>2, <3>1, FS_RemoveElement
    <3> QED
      BY <1>2, <2>1, <3>1, <3>2 DEF HomeOf, Addressed
  <2>2. CASE example # "chat"
    <3>1. R = {m.from} \cap HomeOf(j)
      BY <2>2 DEF Recipients
    <3>2. IsFiniteSet({m.from}) /\ R \subseteq {m.from}
      BY <3>1, FS_Singleton
    <3>3. IsFiniteSet(R)
      BY <3>2, FS_Subset
    <3> QED
      BY <2>2, <3>1, <3>3 DEF HomeOf, Addressed
  <2> QED
    BY <2>1, <2>2
<1>5. OneEach(S, R, m)
  BY <1>1 DEF OneEach
<1>6. PICK q : q = SetToSeq(S)
  OBVIOUS
<1>7. /\ q \in Seq(S)
      /\ \A x, y \in DOMAIN q : q[x].to = q[y].to => x = y
      /\ \A c \in R : \E x \in DOMAIN q : q[x] = [to |-> c, msg |-> m]
  BY <1>4, <1>5, <1>6, WritesOnce
<1>8. S \subseteq Mails /\ \A e \in S : e.to \in R /\ e.msg = m
  BY <1>4, <1>5 DEF OneEach, Mails
<1>9. q \in Seq(Mails) /\ \A x \in DOMAIN q : q[x] \in S
  BY <1>7, <1>8
<1>10. Writes(w, j) = q
  BY <1>1, <1>6 DEF Writes
<1>11. \A x \in DOMAIN q : /\ q[x].msg = m /\ Home[q[x].to] = j
                           /\ q[x].to \in Addressed(m.from)
  BY <1>4, <1>8, <1>9
<1>12. \A c \in R : \E x \in DOMAIN q : q[x].to = c
  <2> SUFFICES ASSUME NEW c \in R PROVE \E x \in DOMAIN q : q[x].to = c
    OBVIOUS
  <2>1. PICK x \in DOMAIN q : q[x] = [to |-> c, msg |-> m]
    BY <1>7
  <2> QED
    BY <2>1
<1> QED
  BY <1>7, <1>9, <1>10, <1>11, <1>12 DEF Covers

(* A closure deals with one shard: its commands go behind all the loop has *)
(* in its channel, and nothing of the same sender comes after them there.  *)
LEMMA DeliverStep ==
  ASSUME Inv, NEW w \in WorkerIds, Deliver(w)
  PROVE  /\ RTypes' /\ BodyOrder' /\ OwnTasks' /\ BusyLast' /\ Onward
         /\ Sources' /\ MailOrder' /\ RepliesInOrder'
<1> USE DEF pool, threads, callers, history
<1>1. worker[w] = "busy" /\ todo[w] < N /\ todo[w] \in Nat
  BY DEF Deliver, Inv, RTypes
<1>2. PICK j \in Loops : j = todo[w]
  BY <1>1, Consts
<1>3. PICK h \in Loops : \E l \in DOMAIN started :
           /\ job[w] \in Tasks /\ LoopTask(job[w], h) /\ w = Lane(h)
           /\ job[w].n \in DOMAIN body[h] /\ Captured(job[w]) = body[h][job[w].n]
           /\ Captured(job[w]) \in Msgs /\ Home[Captured(job[w]).from] = h
           /\ started[l].task = job[w] /\ started[l].worker = w
  BY <1>1, Running
<1>4. PICK l \in DOMAIN started :
           /\ job[w] \in Tasks /\ LoopTask(job[w], h) /\ w = Lane(h)
           /\ job[w].n \in DOMAIN body[h] /\ Captured(job[w]) = body[h][job[w].n]
           /\ Captured(job[w]) \in Msgs /\ Home[Captured(job[w]).from] = h
           /\ started[l].task = job[w] /\ started[l].worker = w
  BY <1>3
<1>5. PICK m \in Msgs : m = Captured(job[w])
  BY <1>4
<1>6. PICK q : q = Writes(w, j)
  OBVIOUS
<1>7. /\ q \in Seq(Mails)
      /\ \A x \in DOMAIN q : /\ q[x].msg = m /\ Home[q[x].to] = j
                             /\ q[x].to \in Addressed(m.from)
      /\ \A x, y \in DOMAIN q : q[x].to = q[y].to => x = y
  BY <1>1, <1>5, <1>6, WritesOf
<1>8. /\ mail' = [mail EXCEPT ![j] = @ \o q]
      /\ todo' = [todo EXCEPT ![w] = @ + 1]
      /\ UNCHANGED <<example, vars, state, members, asked, body, wire, since>>
  BY <1>2, <1>6 DEF Deliver
<1>9. mail \in [Loops -> Seq(Mails)] /\ todo \in [WorkerIds -> Nat]
  BY DEF Inv, RTypes
<1>10. /\ mail'[j] = mail[j] \o q /\ mail[j] \in Seq(Mails)
       /\ \A i \in Loops : i # j => mail'[i] = mail[i]
       /\ todo'[w] = j + 1 /\ todo' \in [WorkerIds -> Nat]
       /\ \A v \in WorkerIds : v # w => todo'[v] = todo[v]
  BY <1>1, <1>2, <1>8, <1>9
<1>11. /\ mail'[j] \in Seq(Mails)
       /\ DOMAIN mail[j] = 1..Len(mail[j]) /\ Len(mail[j]) \in Nat
       /\ DOMAIN mail'[j] = 1..(Len(mail[j]) + Len(q)) /\ Len(q) \in Nat
       /\ \A x \in DOMAIN mail[j] : mail'[j][x] = mail[j][x]
       /\ \A x \in DOMAIN mail'[j] : x \notin DOMAIN mail[j] =>
            x - Len(mail[j]) \in DOMAIN q /\ mail'[j][x] = q[x - Len(mail[j])]
  BY <1>7, <1>10, CatElements
<1>12. RTypes'
  <2>1. mail' \in [Loops -> Seq(Mails)]
    BY <1>8, <1>9, <1>10, <1>11
  <2> QED
    BY <1>8, <1>10, <2>1 DEF Inv, RTypes
<1>13. BodyOrder' /\ OwnTasks' /\ BusyLast' /\ RepliesInOrder'
  BY <1>8 DEF vars, Inv, BodyOrder, OwnTasks, BusyLast, RepliesInOrder
<1>14. Onward
  <2>1. \A v \in WorkerIds :
          todo[v] \in Nat /\ todo'[v] \in Nat /\ todo[v] <= todo'[v]
    BY <1>2, <1>9, <1>10
  <2>2. \A k \in DOMAIN started : started[k].worker \in WorkerIds
    BY Elements DEF Inv, PoolInv
  <2> QED
    BY <1>8, <2>1, <2>2 DEF vars, Onward
<1>15. \A o : \A i \in Loops : Said(o, i) => Said(o, i)'
  BY <1>14, SaidKept, Consts
<1>16. Said(m, j)'
  <2>1. PICK x \in DOMAIN body[h] : x = job[w].n
    BY <1>4
  <2>2. body'[h][x] = m /\ x \in DOMAIN body'[h]
    BY <1>4, <1>5, <1>8, <2>1
  <2>3. l \in DOMAIN started' /\ started'[l] = started[l]
    BY <1>8 DEF vars
  <2>4. started'[l].task.by = LoopOf[h] /\ started'[l].task.n = x
        /\ started'[l].worker = w
    BY <1>4, <2>1, <2>3 DEF LoopTask
  <2>5. j < todo'[w]
    BY <1>10, Consts
  <2>6. Ran(h, x, j)'
    BY <2>3, <2>4, <2>5 DEF Ran
  <2> QED
    BY <2>2, <2>6 DEF Said
<1>17. \A d : Addressed(d)' = Addressed(d)
  BY <1>8 DEF Addressed
<1>18. \A o : Said(o, j) => Before(o, m)
  BY <1>1, <1>2, <1>5, SaidBefore
<1>19. Sources'
  <2>1. ASSUME NEW i \in Loops, NEW x \in DOMAIN mail'[i]
        PROVE  /\ Home[mail'[i][x].to] = i /\ Said(mail[i][x].msg, i)'
               /\ mail'[i][x].to \in Addressed(mail'[i][x].msg.from)
    <3>1. PICK o : o = mail'[i][x].msg
      OBVIOUS
    <3>2. CASE x \in DOMAIN mail[i] /\ mail'[i][x] = mail[i][x]
      <4>1. /\ Home[mail[i][x].to] = i /\ Said(mail[i][x].msg, i)
            /\ mail[i][x].to \in Addressed(mail[i][x].msg.from)
        BY <3>2 DEF Inv, Sources
      <4>2. Said(o, i)'
        BY <1>15, <3>1, <3>2, <4>1
      <4> QED
        BY <3>1, <3>2, <4>1, <4>2
    <3>3. CASE i = j /\ x \notin DOMAIN mail[j]
      <4>1. /\ mail'[i][x].msg = m /\ Home[mail'[i][x].to] = i
            /\ mail'[i][x].to \in Addressed(m.from)
        BY <1>7, <1>11, <3>3
      <4> QED
        BY <1>16, <3>3, <4>1
    <3> QED
      BY <1>10, <1>11, <3>2, <3>3
  <2>2. ASSUME NEW d \in Conns, NEW k \in DOMAIN wire'[d]
        PROVE  Said(wire[d][k], Home[d])' /\ d \in Addressed(wire'[d][k].from)
    <3>1. PICK o : o = wire[d][k]
      OBVIOUS
    <3>2. wire' = wire /\ Said(o, Home[d]) /\ d \in Addressed(o.from)
      BY <1>8, <3>1 DEF Inv, Sources
    <3>3. Said(o, Home[d])'
      BY <1>15, <3>2, Consts
    <3> QED
      BY <3>1, <3>2, <3>3
  <2> QED
    BY <1>17, <2>1, <2>2 DEF Sources
<1>20. MailOrder'
  <2>1. ASSUME NEW i \in Loops, NEW x \in DOMAIN mail'[i],
               NEW y \in DOMAIN mail'[i], x < y,
               mail'[i][x].to = mail'[i][y].to
        PROVE  Before(mail'[i][x].msg, mail'[i][y].msg)
    <3>1. CASE i # j
      BY <1>10, <2>1, <3>1 DEF Inv, MailOrder
    <3>2. CASE i = j /\ y \in DOMAIN mail[j]
      <4>1. x \in DOMAIN mail[j]
        BY <1>11, <2>1, <3>2
      <4>2. mail'[j][x] = mail[j][x] /\ mail'[j][y] = mail[j][y]
        BY <1>11, <3>2, <4>1
      <4> QED
        BY <2>1, <3>2, <4>1, <4>2 DEF Inv, MailOrder
    <3>3. CASE i = j /\ y \notin DOMAIN mail[j] /\ x \in DOMAIN mail[j]
      <4>1. Said(mail[j][x].msg, j)
        BY <3>3 DEF Inv, Sources
      <4>2. Before(mail[j][x].msg, m)
        BY <1>18, <4>1
      <4>3. mail'[j][y].msg = m /\ mail'[j][x] = mail[j][x]
        BY <1>7, <1>11, <3>3
      <4> QED
        BY <3>3, <4>2, <4>3
    <3>4. CASE i = j /\ y \notin DOMAIN mail[j] /\ x \notin DOMAIN mail[j]
      <4>1. x \in DOMAIN mail'[j] /\ y \in DOMAIN mail'[j]
        BY <3>4
      <4>2. /\ x - Len(mail[j]) \in DOMAIN q
            /\ y - Len(mail[j]) \in DOMAIN q
            /\ mail'[j][x] = q[x - Len(mail[j])]
            /\ mail'[j][y] = q[y - Len(mail[j])]
        BY <1>11, <3>4, <4>1
      <4>3. x - Len(mail[j]) = y - Len(mail[j])
        BY <1>7, <2>1, <3>4, <4>2
      <4>4. x = y
        BY <1>11, <4>1, <4>3
      <4> QED
        BY <1>11, <2>1, <4>1, <4>4
    <3> QED
      BY <3>1, <3>2, <3>3, <3>4
  <2>2. ASSUME NEW i \in Loops, NEW x \in DOMAIN mail'[i],
               NEW k \in DOMAIN wire'[mail'[i][x].to]
        PROVE  Before(wire'[mail'[i][x].to][k], mail'[i][x].msg)
    <3>1. wire' = wire
      BY <1>8
    <3>2. CASE x \in DOMAIN mail[i] /\ mail'[i][x] = mail[i][x]
      BY <2>2, <3>1, <3>2 DEF Inv, MailOrder
    <3>3. CASE i = j /\ x \notin DOMAIN mail[j]
      <4>1. PICK y \in DOMAIN q : mail'[i][x] = q[y]
        BY <1>11, <3>3
      <4>2. q[y] \in Mails
        BY <1>7, SeqElement
      <4>3. PICK d \in Conns : d = mail'[i][x].to
        BY <4>1, <4>2 DEF Mails
      <4>4. Home[d] = j /\ mail'[i][x].msg = m
        BY <1>7, <4>1, <4>3
      <4>5. k \in DOMAIN wire[d]
        BY <2>2, <3>1, <4>3
      <4>6. Said(wire[d][k], j)
        BY <4>4, <4>5 DEF Inv, Sources
      <4>7. Before(wire[d][k], m)
        BY <1>18, <4>6
      <4> QED
        BY <3>1, <4>3, <4>4, <4>7
    <3> QED
      BY <1>10, <1>11, <3>2, <3>3
  <2> QED
    BY <2>1, <2>2 DEF MailOrder, Before
<1> QED
  BY <1>12, <1>13, <1>14, <1>19, <1>20

-----------------------------------------------------------------------------
(* Nothing has been asked initially.                                       *)
LEMMA ReplyInit == RInit => Inv
<1> SUFFICES ASSUME RInit PROVE Inv
  OBVIOUS
<1>1. PoolInv
  BY TypeInit, OrderInit DEF RInit, PoolInv
<1>2. IsFiniteSet({})
  BY FS_EmptySet
<1>3. RTypes
  <2>1. <<>> \in Seq(Msgs) /\ <<>> \in Seq(Mails)
    OBVIOUS
  <2>2. \A i \in Loops : /\ IsFiniteSet(members[i])
                         /\ members[i] = {c \in HomeOf(i) : state[c] = "live"}
    BY <1>2 DEF RInit, HomeOf
  <2> QED
    BY <2>1, <2>2 DEF RInit, RTypes
<1>4. /\ \A i \in Loops : /\ DOMAIN body[i] = {} /\ Len(body[i]) = 0
                          /\ DOMAIN mail[i] = {}
      /\ \A c \in Conns : DOMAIN wire[c] = {}
  BY DEF RInit
<1>5. DOMAIN started = {} /\ \A w \in WorkerIds : DOMAIN chan[w] = {}
  BY DEF RInit, Init
<1>6. BodyOrder
  BY <1>4, Consts DEF BodyOrder, RInit, Init
<1>7. OwnTasks /\ BusyLast
  BY <1>5 DEF OwnTasks, BusyLast, RInit, Init
<1>8. Sources /\ MailOrder /\ RepliesInOrder
  BY <1>4 DEF Sources, MailOrder, RepliesInOrder
<1> QED
  BY <1>1, <1>3, <1>6, <1>7, <1>8 DEF Inv

(* Every step keeps the invariant, and takes nothing back.                 *)
LEMMA ReplyStep == Inv /\ [RNext]_rvars => Inv' /\ Onward
<1> SUFFICES ASSUME Inv, [RNext]_rvars PROVE Inv' /\ Onward
  OBVIOUS
<1>1. PoolInv'
  BY PoolKept DEF Inv
<1>2. ASSUME RTypes', BodyOrder', OwnTasks', BusyLast', Onward,
             UNCHANGED <<mail, wire, example>>
      PROVE  Inv' /\ Onward
  BY <1>1, <1>2, QuietStep DEF Inv
<1>3. ASSUME NEW c \in Conns, Open(c) \/ Close(c) \/ Traffic(c)
      PROVE  Inv' /\ Onward
  <2>1. UNCHANGED <<mail, wire, example>>
    BY <1>3 DEF Open, Close, Traffic
  <2> QED
    BY <1>2, <1>3, <2>1, OpenClose, TrafficStep
<1>4. ASSUME NEW i \in Loops, Blocked(i)
      PROVE  Inv' /\ Onward
  <2>1. UNCHANGED <<mail, wire, example>>
    BY <1>4 DEF Blocked, replies
  <2> QED
    BY <1>2, <1>4, <2>1, BlockedStep
<1>5. ASSUME NEW i \in Loops, Write(i)
      PROVE  Inv' /\ Onward
  BY <1>1, <1>5, WriteStep DEF Inv
<1>6. ASSUME NEW w \in WorkerIds, BeginTask(w)
      PROVE  Inv' /\ Onward
  <2>1. UNCHANGED <<mail, wire, example>>
    BY <1>6 DEF BeginTask
  <2> QED
    BY <1>2, <1>6, <2>1, BeginStep
<1>7. ASSUME NEW w \in WorkerIds, Deliver(w)
      PROVE  Inv' /\ Onward
  BY <1>1, <1>7, DeliverStep DEF Inv
<1>8. ASSUME \/ \E w \in WorkerIds : FinishTask(w)
             \/ \E p \in Pools : StartPool(p) \/ PoolStep(p)
      PROVE  Inv' /\ Onward
  <2>1. UNCHANGED <<mail, wire, example>>
    BY <1>8 DEF FinishTask, StartPool, PoolStep, replies
  <2> QED
    BY <1>2, <1>8, <2>1, RestStep
<1>9. CASE UNCHANGED rvars
  <2>1. UNCHANGED <<vars, state, members, asked, body, todo, mail, wire,
                    since, example>>
    BY <1>9 DEF rvars, replies
  <2>2. RTypes' /\ BodyOrder' /\ OwnTasks' /\ BusyLast'
    BY <2>1 DEF vars, pool, threads, callers, history,
       Inv, RTypes, BodyOrder, OwnTasks, BusyLast
  <2>3. Onward
    BY <2>1, OnwardSame DEF vars, threads, history, Inv
  <2> QED
    BY <1>2, <2>1, <2>2, <2>3
<1> QED
  BY <1>3, <1>4, <1>5, <1>6, <1>7, <1>8, <1>9 DEF RNext, TaskStep

(* What a connection receives from one sender comes in the order of the    *)
(* requests and nothing twice, for both handlers, any number of loops and  *)
(* workers, connections that come and go and channels that fill up         *)
(* (chat-room.rs 43-82, async-echo-rnet.rs 36-52).                         *)
THEOREM RepliesOrdered == RSpec => []RepliesInOrder
<1>1. RSpec => []Inv
  BY ReplyInit, ReplyStep, PTL DEF RSpec
<1> QED
  BY <1>1, PTL DEF Inv

-----------------------------------------------------------------------------
(* Completeness.                                                           *)

(* A task that a pool has accepted: of which loop it is, and what its      *)
(* closure captured.                                                       *)
LEMMA AcceptedTask ==
  ASSUME Inv, AcceptedKnown, NEW p \in Pools, NEW t \in accepted[p]
  PROVE  /\ t \in Tasks /\ Sent(t, calls, at)
         /\ \E i \in Loops : /\ LoopTask(t, i) /\ t.n \in DOMAIN body[i]
                             /\ Captured(t) = body[i][t.n]
                             /\ body[i][t.n] \in Msgs
<1>1. /\ t \in Tasks /\ Sent(t, calls, at)
      /\ \E i \in Loops : LoopTask(t, i)
  <2>1. CASE \E w \in WorkerIds : \E x \in DOMAIN chan[w] : chan[w][x] = t
    BY <2>1, ChannelTask DEF Inv
  <2>2. CASE \E k \in DOMAIN started : started[k].task = t
    BY <2>2, StartedTask DEF Inv
  <2> QED
    BY <2>1, <2>2 DEF AcceptedKnown
<1>2. PICK i \in Loops : LoopTask(t, i)
  BY <1>1
<1>3. /\ t.n \in DOMAIN body[i] /\ Captured(t) = body[i][t.n]
      /\ body[i][t.n] \in Msgs
  BY <1>1, <1>2, CapturedBody DEF Inv
<1> QED
  BY <1>1, <1>2, <1>3

(* What a closure has captured it keeps.                                   *)
LEMMA CapturedKept ==
  ASSUME Onward, NEW t, NEW i \in Loops, LoopTask(t, i), t.n \in DOMAIN body[i]
  PROVE  Captured(t)' = Captured(t)
<1>1. (CHOOSE j \in Loops : LoopOf[j] = t.by) = i
  BY Consts DEF LoopTask
<1>2. Captured(t) = body[i][t.n] /\ Captured(t)' = body'[i][t.n]
  BY <1>1 DEF Captured
<1> QED
  BY <1>2 DEF Onward

(* A step accepts nothing, or the task that a loop has in hand: the last   *)
(* that the loop submitted.                                                *)
LEMMA Accepting ==
  ASSUME Inv, [RNext]_rvars
  PROVE  /\ \A p \in Pools : accepted[p] \subseteq accepted'[p]
         /\ \A p \in Pools : \A t \in accepted'[p] :
              \/ t \in accepted[p]
              \/ /\ UNCHANGED replies
                 /\ \E i \in Loops : /\ LoopTask(t, i) /\ t.n \in DOMAIN body[i]
                                     /\ t.n = Len(body[i])
                                     /\ Captured(t) = body[i][t.n]
                 /\ \E w \in WorkerIds : \E x \in DOMAIN chan'[w] :
                      chan'[w][x] = t
<1> USE DEF pool, threads, callers, history
<1>1. CASE UNCHANGED accepted
  BY <1>1
<1>2. ASSUME NEW i \in Loops, Blocked(i), NEW t, t = LoopOf[i], Send(t)
      PROVE  /\ \A p \in Pools : accepted[p] \subseteq accepted'[p]
             /\ \A p \in Pools : \A c \in accepted'[p] :
                  \/ c \in accepted[p]
                  \/ /\ UNCHANGED replies
                     /\ LoopTask(c, i) /\ c.n \in DOMAIN body[i]
                     /\ c.n = Len(body[i])
                     /\ Captured(c) = body[i][c.n]
                     /\ \E w \in WorkerIds : \E x \in DOMAIN chan'[w] :
                          chan'[w][x] = c
  <2>1. t \in Threads /\ at[t] = "send"
    BY <1>2, Consts DEF Send
  <2>2. Target(t) \in WorkerIds /\ InHand(t) \in Tasks
    BY <2>1, TargetType DEF Inv, PoolInv
  <2>3. PICK v \in WorkerIds, c \in Tasks : v = Target(t) /\ c = InHand(t)
    BY <2>2
  <2>4. /\ chan' = [chan EXCEPT ![v] = Append(@, c)]
        /\ accepted' = [accepted EXCEPT ![global] = @ \cup {c}]
    BY <1>2, <2>3 DEF Send
  <2>5. \A p \in Pools : /\ accepted[p] \subseteq accepted'[p]
                         /\ \A d \in accepted'[p] : d \in accepted[p] \/ d = c
    BY <2>4 DEF Inv, PoolInv, TypeInv, TypeOK
  <2>6. calls[t] > 0 /\ shard[t] = i
    BY <1>2, <2>1, Consts DEF Inv, OwnTasks
  <2>7. LoopTask(c, i) /\ c.n = Len(body[i])
    BY <1>2, <2>3, <2>6 DEF LoopTask, InHand, Inv, BodyOrder
  <2>8. c.n \in DOMAIN body[i]
    BY <2>7 DEF LoopTask, Inv, RTypes
  <2>9. Captured(c) = body[i][c.n]
    <3>1. (CHOOSE j \in Loops : LoopOf[j] = c.by) = i
      BY <2>7, Consts DEF LoopTask
    <3> QED
      BY <3>1 DEF Captured
  <2>10. \E x \in DOMAIN chan'[v] : chan'[v][x] = c
    <3>1. chan[v] \in Seq(Tasks) /\ chan'[v] = Append(chan[v], c)
      BY <2>4 DEF Inv, PoolInv, TypeInv, TypeOK
    <3>2. /\ DOMAIN chan'[v] = 1..(Len(chan[v]) + 1) /\ Len(chan[v]) \in Nat
          /\ chan'[v][Len(chan[v]) + 1] = c
      BY <3>1, AppendElements
    <3> QED
      BY <3>2
  <2>11. UNCHANGED replies
    BY <1>2 DEF Blocked
  <2> QED
    BY <2>5, <2>7, <2>8, <2>9, <2>10, <2>11
<1>3. \/ UNCHANGED accepted
      \/ \E i \in Loops : Blocked(i) /\ Send(LoopOf[i])
  <2>1. ASSUME NEW i \in Loops, Blocked(i)
        PROVE  UNCHANGED accepted \/ Send(LoopOf[i])
    BY <2>1 DEF Blocked, Submitting, ReadLock, SendFails
  <2>2. ASSUME NEW c \in Conns, Open(c) \/ Close(c) \/ Traffic(c)
        PROVE  UNCHANGED accepted
    BY <2>2 DEF Open, Close, Traffic, Submit, vars
  <2>3. ASSUME NEW i \in Loops, Write(i) PROVE UNCHANGED accepted
    BY <2>3 DEF Write, vars
  <2>4. ASSUME NEW w \in WorkerIds, TaskStep(w) PROVE UNCHANGED accepted
    BY <2>4 DEF TaskStep, BeginTask, Deliver, FinishTask, Begin, Finish, vars
  <2>5. ASSUME NEW p \in Pools, StartPool(p) \/ PoolStep(p)
        PROVE  UNCHANGED accepted
    BY <2>5 DEF StartPool, PoolStep, New, Install
  <2>6. CASE UNCHANGED rvars
    BY <2>6 DEF rvars, vars
  <2> QED
    BY <2>1, <2>2, <2>3, <2>4, <2>5, <2>6 DEF RNext
<1> QED
  BY <1>1, <1>2, <1>3

(* What is in a channel or has been begun remains so.                      *)
LEMMA KnownStep ==
  ASSUME Inv, AcceptedKnown, [RNext]_rvars
  PROVE  AcceptedKnown'
<1> USE DEF pool, threads, callers, history
<1>1. \A w \in WorkerIds : \A x \in DOMAIN chan[w] :
        \/ \E y \in DOMAIN chan'[w] : chan'[w][y] = chan[w][x]
        \/ \E k \in DOMAIN started' : started'[k].task = chan[w][x]
  <2>1. CASE UNCHANGED chan
    BY <2>1
  <2>2. ASSUME NEW t \in Threads, Send(t), NEW w \in WorkerIds,
               NEW x \in DOMAIN chan[w]
        PROVE  \E y \in DOMAIN chan'[w] : chan'[w][y] = chan[w][x]
    <3>1. at[t] = "send"
      BY <2>2 DEF Send
    <3>2. Target(t) \in WorkerIds /\ InHand(t) \in Tasks
      BY <3>1, TargetType DEF Inv, PoolInv
    <3>3. PICK v \in WorkerIds, c \in Tasks : v = Target(t) /\ c = InHand(t)
      BY <3>2
    <3>4. chan' = [chan EXCEPT ![v] = Append(@, c)]
          /\ chan \in [WorkerIds -> Seq(Tasks)]
      BY <2>2, <3>3 DEF Send, Inv, PoolInv, TypeInv, TypeOK
    <3>5. CASE w = v
      <4>1. chan'[w] = Append(chan[w], c) /\ chan[w] \in Seq(Tasks)
        BY <3>4, <3>5
      <4>2. x \in DOMAIN chan'[w] /\ chan'[w][x] = chan[w][x]
        BY <4>1, AppendElements
      <4> QED
        BY <4>2
    <3>6. CASE w # v
      BY <3>4, <3>6
    <3> QED
      BY <3>5, <3>6
  <2>3. ASSUME NEW v \in WorkerIds, Begin(v), NEW w \in WorkerIds,
               NEW x \in DOMAIN chan[w]
        PROVE  \/ \E y \in DOMAIN chan'[w] : chan'[w][y] = chan[w][x]
               \/ \E k \in DOMAIN started' : started'[k].task = chan[w][x]
    <3>1. chan \in [WorkerIds -> Seq(Tasks)] /\ chan[v] # <<>>
          /\ chan' = [chan EXCEPT ![v] = Tail(@)]
      BY <2>3 DEF Begin, Inv, PoolInv, TypeInv, TypeOK
    <3>2. CASE w # v
      BY <3>1, <3>2
    <3>3. CASE w = v
      <4>1. /\ chan[w] \in Seq(Tasks) /\ chan[w] # <<>>
            /\ chan'[w] = Tail(chan[w])
        BY <3>1, <3>3
      <4>2. CASE x = 1
        <5>1. Head(chan[w]) \in Tasks /\ Head(chan[w]) = chan[w][x]
          BY <4>1, <4>2, TailElements
        <5>2. PICK e \in [task : Tasks, worker : WorkerIds] :
                e = [task |-> Head(chan[w]), worker |-> w]
          BY <5>1
        <5>3. /\ started \in Seq([task : Tasks, worker : WorkerIds])
              /\ started' = Append(started, e)
          BY <2>3, <3>3, <5>2 DEF Begin, Inv, PoolInv, TypeInv, TypeOK
        <5>4. /\ DOMAIN started' = 1..(Len(started) + 1) /\ Len(started) \in Nat
              /\ started'[Len(started) + 1] = e
          BY <5>3, AppendElements
        <5>5. Len(started) + 1 \in DOMAIN started'
          BY <5>4
        <5> QED
          BY <5>1, <5>2, <5>4, <5>5
      <4>3. CASE x # 1
        <5>1. x - 1 \in DOMAIN chan'[w] /\ chan'[w][x - 1] = chan[w][x]
          BY <4>1, <4>3, TailElements
        <5> QED
          BY <5>1
      <4> QED
        BY <4>2, <4>3
    <3> QED
      BY <3>2, <3>3
  <2>4. \/ UNCHANGED chan
        \/ \E t \in Threads : Send(t)
        \/ \E v \in WorkerIds : Begin(v)
    <3>1. ASSUME NEW i \in Loops, Blocked(i)
          PROVE  UNCHANGED chan \/ \E t \in Threads : Send(t)
      BY <3>1, Consts DEF Blocked, Submitting, ReadLock, SendFails
    <3>2. ASSUME NEW c \in Conns, Open(c) \/ Close(c) \/ Traffic(c)
          PROVE  UNCHANGED chan
      BY <3>2 DEF Open, Close, Traffic, Submit, vars
    <3>3. ASSUME NEW i \in Loops, Write(i) PROVE UNCHANGED chan
      BY <3>3 DEF Write, vars
    <3>4. ASSUME NEW w \in WorkerIds, TaskStep(w)
          PROVE  UNCHANGED chan \/ Begin(w)
      BY <3>4 DEF TaskStep, BeginTask, Deliver, FinishTask, Finish, vars
    <3>5. ASSUME NEW p \in Pools, StartPool(p) \/ PoolStep(p)
          PROVE  UNCHANGED chan
      BY <3>5 DEF StartPool, PoolStep, New, Install
    <3>6. CASE UNCHANGED rvars
      BY <3>6 DEF rvars, vars
    <3> QED
      BY <3>1, <3>2, <3>3, <3>4, <3>5, <3>6 DEF RNext
  <2> QED
    BY <2>1, <2>2, <2>3, <2>4
<1>2. \A k \in DOMAIN started : k \in DOMAIN started' /\ started'[k] = started[k]
  BY ReplyStep DEF Onward
<1> SUFFICES ASSUME NEW p \in Pools, NEW t \in accepted'[p]
             PROVE  \/ \E w \in WorkerIds : \E x \in DOMAIN chan'[w] :
                         chan'[w][x] = t
                    \/ \E k \in DOMAIN started' : started'[k].task = t
  BY DEF AcceptedKnown
<1>3. CASE t \in accepted[p]
  <2>1. CASE \E w \in WorkerIds : \E x \in DOMAIN chan[w] : chan[w][x] = t
    BY <1>1, <2>1
  <2>2. CASE \E k \in DOMAIN started : started[k].task = t
    BY <1>2, <2>2
  <2> QED
    BY <1>3, <2>1, <2>2 DEF AcceptedKnown
<1>4. CASE t \notin accepted[p]
  BY <1>4, Accepting
<1> QED
  BY <1>3, <1>4

(* A step after which a closure that has dealt with the shard of an open   *)
(* connection older than its message had done so before, and the           *)
(* connection was open and as old.                                         *)
NoNewDealing ==
  \A c \in Conns : \A i \in Loops : \A x \in DOMAIN body'[i] :
    /\ state'[c] = "live" /\ since'[c][body'[i][x].from] < body'[i][x].n
    /\ Ran(i, x, Home[c])'
    => /\ state[c] = "live" /\ since'[c] = since[c]
       /\ x \in DOMAIN body[i] /\ body'[i][x] = body[i][x]
       /\ Ran(i, x, Home[c])

(* Such a step keeps DealtWith if it writes nothing.                       *)
LEMMA DealtFrame ==
  ASSUME DealtWith, NoNewDealing, UNCHANGED <<mail, wire, example>>
  PROVE  DealtWith'
<1> SUFFICES ASSUME NEW c \in Conns, NEW i \in Loops, NEW x \in DOMAIN body'[i],
                    state'[c] = "live",
                    c \in Addressed(body[i][x].from)',
                    since'[c][body'[i][x].from] < body'[i][x].n,
                    Ran(i, x, Home[c])'
             PROVE  Arrived(c, body[i][x])' \/ InMail(c, body[i][x])'
  BY DEF DealtWith
<1>1. /\ state[c] = "live" /\ since'[c] = since[c]
      /\ x \in DOMAIN body[i] /\ body'[i][x] = body[i][x]
      /\ Ran(i, x, Home[c])
  BY DEF NoNewDealing
<1>2. c \in Addressed(body[i][x].from)
  BY <1>1 DEF Addressed
<1>3. Arrived(c, body[i][x]) \/ InMail(c, body[i][x])
  BY <1>1, <1>2 DEF DealtWith
<1> QED
  BY <1>1, <1>3 DEF Arrived, InMail

(* The closures stay where they are: nothing new is dealt with.            *)
LEMMA RanSame ==
  ASSUME UNCHANGED <<started, worker, job, todo>>, NEW i \in Loops, NEW x,
         NEW j, Ran(i, x, j)'
  PROVE  Ran(i, x, j)
  BY DEF Ran

(* The steps of connections and of the callers of submit.                  *)
LEMMA CallersDeal ==
  ASSUME Inv, \/ \E c \in Conns : Open(c) \/ Close(c) \/ Traffic(c)
              \/ \E i \in Loops : Blocked(i)
  PROVE  NoNewDealing
<1> USE DEF pool, threads, callers, history
<1>1. UNCHANGED <<started, worker, job, todo>>
  BY DEF Open, Close, Traffic, Blocked, Submit, Submitting, ReadLock, Send,
     SendFails, vars, replies
<1> SUFFICES ASSUME NEW d \in Conns, NEW i \in Loops,
                    NEW x \in DOMAIN body'[i], state'[d] = "live",
                    since'[d][body'[i][x].from] < body'[i][x].n,
                    Ran(i, x, Home[d])'
             PROVE  /\ state[d] = "live" /\ since'[d] = since[d]
                    /\ x \in DOMAIN body[i] /\ body'[i][x] = body[i][x]
  BY <1>1, RanSame DEF NoNewDealing
<1>2. Ran(i, x, Home[d])
  BY <1>1, RanSame
<1>3. ASSUME NEW c \in Conns, Traffic(c)
      PROVE  /\ state[d] = "live" /\ since'[d] = since[d]
             /\ x \in DOMAIN body[i] /\ body'[i][x] = body[i][x]
  <2>1. /\ UNCHANGED <<state, since>>
        /\ body' = [body EXCEPT ![Home[c]] =
                      Append(@, [from |-> c, n |-> asked[c] + 1])]
    BY <1>3 DEF Traffic
  <2>2. PICK m : m = [from |-> c, n |-> asked[c] + 1]
    OBVIOUS
  <2>3. m \in Msgs /\ body \in [Loops -> Seq(Msgs)]
    <3>1. asked[c] \in Nat /\ body \in [Loops -> Seq(Msgs)]
      BY DEF Inv, RTypes
    <3>2. m \in Msgs
      BY <2>2, <3>1 DEF Msgs
    <3> QED
      BY <3>1, <3>2
  <2>4. \/ x \in DOMAIN body[i] /\ body'[i][x] = body[i][x]
        \/ x = Len(body[i]) + 1
    <3>1. CASE i = Home[c]
      <4>1. body'[i] = Append(body[i], m) /\ body[i] \in Seq(Msgs)
        BY <2>1, <2>2, <2>3, <3>1
      <4> QED
        BY <2>3, <4>1, AppendElements
    <3>2. CASE i # Home[c]
      BY <2>1, <2>3, <3>2
    <3> QED
      BY <3>1, <3>2
  <2>5. x # Len(body[i]) + 1
    <3>1. PICK k \in DOMAIN started :
            started[k].task.by = LoopOf[i] /\ started[k].task.n = x
      BY <1>2 DEF Ran
    <3>2. Sent(started[k].task, calls, at)
      BY StartedTask DEF Inv
    <3>3. x <= calls[LoopOf[i]] /\ Len(body[i]) = calls[LoopOf[i]]
          /\ Len(body[i]) \in Nat
      BY <2>3, <3>1, <3>2 DEF Sent, Inv, BodyOrder
    <3> QED
      BY <3>3
  <2> QED
    BY <2>1, <2>4, <2>5
<1>4. ASSUME NEW c \in Conns, Open(c)
      PROVE  /\ state[d] = "live" /\ since'[d] = since[d]
             /\ x \in DOMAIN body[i] /\ body'[i][x] = body[i][x]
  <2>1. /\ body' = body /\ state' = [state EXCEPT ![c] = "live"]
        /\ since' = [since EXCEPT ![c] = asked]
    BY <1>4 DEF Open
  <2>2. d # c
    <3> SUFFICES ASSUME d = c PROVE FALSE
      OBVIOUS
    <3>1. since'[d] = asked
      BY <2>1 DEF Inv, RTypes
    <3>2. /\ x \in DOMAIN body[i] /\ body[i][x].n <= asked[body[i][x].from]
          /\ body[i][x] \in Msgs
      BY <2>1, SeqElement DEF Inv, BodyOrder, RTypes
    <3>3. body[i][x].n \in Nat /\ asked[body[i][x].from] \in Nat
      BY <3>2 DEF Inv, RTypes, Msgs
    <3> QED
      BY <2>1, <3>1, <3>2, <3>3
  <2> QED
    BY <2>1, <2>2 DEF Inv, RTypes
<1>5. ASSUME NEW c \in Conns, Close(c)
      PROVE  /\ state[d] = "live" /\ since'[d] = since[d]
             /\ x \in DOMAIN body[i] /\ body'[i][x] = body[i][x]
  <2>1. /\ UNCHANGED <<body, since>> /\ state' = [state EXCEPT ![c] = "closed"]
    BY <1>5 DEF Close
  <2> QED
    BY <2>1 DEF Inv, RTypes
<1>6. ASSUME NEW h \in Loops, Blocked(h)
      PROVE  /\ state[d] = "live" /\ since'[d] = since[d]
             /\ x \in DOMAIN body[i] /\ body'[i][x] = body[i][x]
  BY <1>6 DEF Blocked, replies
<1> QED
  BY <1>3, <1>4, <1>5, <1>6

(* A task that begins has dealt with nothing, one that ends has dealt with *)
(* all shards, and the workers of a new pool have not begun any.           *)
LEMMA WorkersDeal ==
  ASSUME Inv, \/ \E w \in WorkerIds : BeginTask(w) \/ FinishTask(w)
              \/ \E p \in Pools : StartPool(p) \/ PoolStep(p)
  PROVE  NoNewDealing
<1> USE DEF pool, threads, callers, history
<1>1. UNCHANGED <<state, since, body>>
  BY DEF BeginTask, FinishTask, StartPool, PoolStep, replies
<1> SUFFICES ASSUME NEW i \in Loops, NEW x \in DOMAIN body[i], NEW j \in Loops,
                    Ran(i, x, j)'
             PROVE  Ran(i, x, j)
  BY <1>1, Consts DEF NoNewDealing
<1>2. PICK k \in DOMAIN started' :
        /\ started'[k].task.by = LoopOf[i] /\ started'[k].task.n = x
        /\ worker'[started'[k].worker] = "busy"
             /\ job'[started'[k].worker] = started'[k].task
             => j < todo'[started'[k].worker]
  BY DEF Ran
<1>3. \A l \in DOMAIN started : started[l].worker \in WorkerIds
  BY Elements DEF Inv, PoolInv
<1>4. ASSUME NEW w \in WorkerIds, BeginTask(w)
      PROVE  Ran(i, x, j)
  <2>1. Head(chan[w]) \in Tasks
    <3>1. chan[w] \in Seq(Tasks) /\ chan[w] # <<>>
      BY <1>4 DEF BeginTask, Begin, Inv, PoolInv, TypeInv, TypeOK
    <3> QED
      BY <3>1, TailElements
  <2>2. PICK c \in Tasks : c = Head(chan[w])
    BY <2>1
  <2>3. PICK e \in [task : Tasks, worker : WorkerIds] :
          e = [task |-> c, worker |-> w]
    OBVIOUS
  <2>4. /\ worker[w] = "idle" /\ worker'[w] = "busy" /\ job'[w] = c
        /\ todo'[w] = 0
        /\ \A v \in WorkerIds \ {w} : /\ worker'[v] = worker[v]
                                      /\ job'[v] = job[v] /\ todo'[v] = todo[v]
        /\ started' = Append(started, e)
        /\ started \in Seq([task : Tasks, worker : WorkerIds])
    BY <1>4, <2>2, <2>3
       DEF BeginTask, Begin, Inv, PoolInv, TypeInv, TypeOK, RTypes
  <2>5. \/ k \in DOMAIN started /\ started'[k] = started[k]
        \/ started'[k] = e
    BY <2>4, AppendElements
  <2>6. started'[k] # e
    BY <1>2, <2>3, <2>4, Consts
  <2>7. CASE started[k].worker = w
    BY <1>2, <2>4, <2>5, <2>6, <2>7 DEF Ran
  <2>8. CASE started[k].worker # w
    BY <1>2, <1>3, <2>4, <2>5, <2>6, <2>8 DEF Ran
  <2> QED
    BY <2>7, <2>8
<1>5. ASSUME NEW w \in WorkerIds, FinishTask(w)
      PROVE  Ran(i, x, j)
  <2>1. /\ UNCHANGED <<started, todo>> /\ todo[w] = N
        /\ \A v \in WorkerIds \ {w} :
             worker'[v] = worker[v] /\ job'[v] = job[v]
    BY <1>5 DEF FinishTask, Finish, replies, Inv, PoolInv, TypeInv, TypeOK
  <2>2. j < N
    BY Consts
  <2>3. CASE started[k].worker = w
    BY <1>2, <2>1, <2>2, <2>3 DEF Ran
  <2>4. CASE started[k].worker # w
    BY <1>2, <1>3, <2>1, <2>4 DEF Ran
  <2> QED
    BY <2>3, <2>4
<1>6. ASSUME NEW p \in Pools, StartPool(p) \/ PoolStep(p)
      PROVE  Ran(i, x, j)
  <2>1. UNCHANGED <<started, todo, job>>
    BY <1>6 DEF StartPool, PoolStep, New, Install, replies
  <2>2. \A v \in WorkerIds : worker[v] = "busy" => worker'[v] = "busy"
    BY <1>6 DEF StartPool, PoolStep, New, Install, Inv, PoolInv, OrderInv,
       NoWorkersYet
  <2> QED
    BY <1>2, <1>3, <2>1, <2>2 DEF Ran
<1> QED
  BY <1>4, <1>5, <1>6

(* The loop writes to an open connection what it takes out of its channel. *)
LEMMA WriteDeals ==
  ASSUME Inv, DealtWith, NEW h \in Loops, Write(h)
  PROVE  DealtWith'
<1> USE DEF pool, threads, callers, history
<1>1. UNCHANGED <<example, vars, state, members, asked, body, todo, since>>
  BY DEF Write
<1>2. \A i \in Loops : \A x, j : Ran(i, x, j)' => Ran(i, x, j)
  BY <1>1, RanSame DEF vars
<1> SUFFICES ASSUME NEW c \in Conns, NEW i \in Loops, NEW x \in DOMAIN body[i],
                    state[c] = "live", c \in Addressed(body[i][x].from),
                    since[c][body[i][x].from] < body[i][x].n,
                    Ran(i, x, Home[c])
             PROVE  Arrived(c, body[i][x])' \/ InMail(c, body[i][x])'
  BY <1>1, <1>2 DEF DealtWith, Addressed
<1>3. PICK m \in Msgs : m = body[i][x] /\ m = body'[i][x]
  BY <1>1, SeqElement DEF Inv, RTypes
<1>4. Arrived(c, m) \/ InMail(c, m)
  BY <1>3 DEF DealtWith
<1>5. mail[h] \in Seq(Mails) /\ mail[h] # <<>>
      /\ mail \in [Loops -> Seq(Mails)] /\ wire \in [Conns -> Seq(Msgs)]
  BY DEF Write, Inv, RTypes
<1>6. mail' = [mail EXCEPT ![h] = Tail(@)]
  BY DEF Write
<1>7. PICK e \in Mails : e = Head(mail[h])
  BY <1>5, TailElements
<1>8. PICK a \in Conns, o \in Msgs : a = e.to /\ o = e.msg
  BY DEF Mails
<1>9. /\ state[a] = "live" => wire' = [wire EXCEPT ![a] = Append(@, o)]
      /\ state[a] # "live" => wire' = wire
  BY <1>7, <1>8 DEF Write
<1>10. ASSUME NEW k \in DOMAIN wire[c]
       PROVE  k \in DOMAIN wire'[c] /\ wire'[c][k] = wire[c][k]
  <2>1. CASE wire'[c] = wire[c]
    BY <2>1
  <2>2. CASE wire'[c] = Append(wire[c], o)
    <3>1. wire[c] \in Seq(Msgs)
      BY <1>5
    <3> QED
      BY <2>2, <3>1, AppendElements
  <2> QED
    BY <1>5, <1>9, <2>1, <2>2
<1>11. CASE Arrived(c, m)
  BY <1>3, <1>10, <1>11 DEF Arrived
<1>12. CASE InMail(c, m)
  <2>1. PICK y \in DOMAIN mail[Home[c]] : mail[Home[c]][y] = [to |-> c, msg |-> m]
    BY <1>12 DEF InMail
  <2>2. CASE Home[c] # h
    <3>1. mail'[Home[c]] = mail[Home[c]]
      BY <1>5, <1>6, <2>2, Consts
    <3> QED
      BY <1>3, <2>1, <3>1 DEF InMail
  <2>3. CASE Home[c] = h /\ y = 1
    <3>1. a = c /\ o = m
      <4>1. e = mail[h][1]
        BY <1>5, <1>7, TailElements
      <4> QED
        BY <1>8, <2>1, <2>3, <4>1
    <3>2. wire'[c] = Append(wire[c], m) /\ wire[c] \in Seq(Msgs)
      BY <1>5, <1>9, <3>1
    <3>3. /\ DOMAIN wire'[c] = 1..(Len(wire[c]) + 1) /\ Len(wire[c]) \in Nat
          /\ wire'[c][Len(wire[c]) + 1] = m
      BY <3>2, AppendElements
    <3>4. Len(wire[c]) + 1 \in DOMAIN wire'[c]
      BY <3>3
    <3> QED
      BY <1>3, <3>3, <3>4 DEF Arrived
  <2>4. CASE Home[c] = h /\ y # 1
    <3>1. mail'[h] = Tail(mail[h])
      BY <1>5, <1>6
    <3>2. y - 1 \in DOMAIN mail'[h] /\ mail'[h][y - 1] = mail[h][y]
      BY <1>5, <2>4, <3>1, TailElements
    <3> QED
      BY <1>3, <2>1, <2>4, <3>2 DEF InMail
  <2> QED
    BY <2>2, <2>3, <2>4
<1> QED
  BY <1>3, <1>4, <1>11, <1>12

(* A closure that deals with a shard writes to all it addresses there.     *)
LEMMA DeliverDeals ==
  ASSUME Inv, DealtWith, NEW w \in WorkerIds, Deliver(w)
  PROVE  DealtWith'
<1> USE DEF pool, threads, callers, history
<1>1. worker[w] = "busy" /\ todo[w] < N /\ todo[w] \in Nat
  BY DEF Deliver, Inv, RTypes
<1>2. PICK j \in Loops : j = todo[w]
  BY <1>1, Consts
<1>3. PICK h \in Loops :
        /\ LoopTask(job[w], h) /\ Captured(job[w]) = body[h][job[w].n]
        /\ Captured(job[w]) \in Msgs
  BY <1>1, Running
<1>4. PICK m \in Msgs : m = Captured(job[w])
  BY <1>3
<1>5. PICK q : q = Writes(w, j)
  OBVIOUS
<1> PICK R : R = Recipients(m, j)
  OBVIOUS
<1>6. /\ q \in Seq(Mails)
      /\ \A c \in R : \E x \in DOMAIN q : q[x] = [to |-> c, msg |-> m]
  <2>1. q \in Seq(Mails)
    BY <1>1, <1>4, <1>5, WritesOf
  <2>2. /\ \A c \in R : \E x \in DOMAIN q : q[x].to = c
        /\ \A x \in DOMAIN q : q[x].msg = m
    <3>1. Covers(Writes(w, j), Recipients(m, j))
      BY <1>1, <1>4, WritesOf
    <3>2. \A x \in DOMAIN q : q[x].msg = m
      BY <1>1, <1>4, <1>5, WritesOf
    <3> QED
      BY <1>5, <3>1, <3>2 DEF Covers
  <2>3. ASSUME NEW x \in DOMAIN q
        PROVE  q[x] = [to |-> q[x].to, msg |-> q[x].msg]
    <3>1. q[x] \in Mails
      BY <2>1, SeqElement
    <3> QED
      BY <3>1 DEF Mails
  <2> QED
    BY <2>1, <2>2, <2>3, Zenon
<1>7. /\ mail' = [mail EXCEPT ![j] = @ \o q]
      /\ todo' = [todo EXCEPT ![w] = @ + 1]
      /\ UNCHANGED <<example, vars, state, members, asked, body, wire, since>>
  BY <1>2, <1>5 DEF Deliver
<1>8. mail \in [Loops -> Seq(Mails)] /\ todo \in [WorkerIds -> Nat]
  BY DEF Inv, RTypes
<1>9. /\ mail'[j] = mail[j] \o q /\ mail[j] \in Seq(Mails)
      /\ \A i \in Loops : i # j => mail'[i] = mail[i]
      /\ todo'[w] = j + 1
      /\ \A v \in WorkerIds : v # w => todo'[v] = todo[v]
  BY <1>1, <1>2, <1>7, <1>8
<1>10. /\ \A x \in DOMAIN mail[j] : x \in DOMAIN mail'[j] /\ mail'[j][x] = mail[j][x]
       /\ \A x \in DOMAIN q : /\ Len(mail[j]) + x \in DOMAIN mail'[j]
                              /\ mail'[j][Len(mail[j]) + x] = q[x]
  <2>1. q \in Seq(Mails) /\ mail[j] \in Seq(Mails)
    BY <1>6, <1>9
  <2>2. PICK r \in Seq(Mails) : r = mail[j]
    BY <2>1
  <2>3. /\ \A x \in DOMAIN r : x \in DOMAIN (r \o q) /\ (r \o q)[x] = r[x]
        /\ \A x \in DOMAIN q : /\ Len(r) + x \in DOMAIN (r \o q)
                               /\ (r \o q)[Len(r) + x] = q[x]
    BY <2>1, CatElements
  <2> QED
    BY <1>9, <2>2, <2>3, Zenon
<1>11. \A k \in DOMAIN started : started[k].worker \in WorkerIds
  BY Elements DEF Inv, PoolInv
<1> SUFFICES ASSUME NEW c \in Conns, NEW i \in Loops, NEW x \in DOMAIN body[i],
                    state[c] = "live", c \in Addressed(body[i][x].from),
                    since[c][body[i][x].from] < body[i][x].n,
                    Ran(i, x, Home[c])'
             PROVE  Arrived(c, body[i][x])' \/ InMail(c, body[i][x])'
  BY <1>7 DEF DealtWith, Addressed
<1>12. CASE Ran(i, x, Home[c])
  <2>1. Arrived(c, body[i][x]) \/ InMail(c, body[i][x])
    BY <1>12 DEF DealtWith
  <2>2. PICK o : o = body[i][x] /\ o = body'[i][x]
    BY <1>7
  <2>3. Arrived(c, o) => Arrived(c, o)'
    BY <1>7 DEF Arrived
  <2>4. ASSUME InMail(c, o) PROVE InMail(c, o)'
    <3>1. PICK y \in DOMAIN mail[Home[c]] :
            mail[Home[c]][y] = [to |-> c, msg |-> o]
      BY <2>4 DEF InMail
    <3>2. y \in DOMAIN mail'[Home[c]] /\ mail'[Home[c]][y] = mail[Home[c]][y]
      BY <1>9, <1>10, Consts
    <3> QED
      BY <3>1, <3>2 DEF InMail
  <2> QED
    BY <2>1, <2>2, <2>3, <2>4
<1>13. CASE ~Ran(i, x, Home[c])
  <2>1. PICK k \in DOMAIN started :
          /\ started[k].task.by = LoopOf[i] /\ started[k].task.n = x
          /\ worker[started[k].worker] = "busy"
               /\ job[started[k].worker] = started[k].task
               => Home[c] < todo'[started[k].worker]
    BY <1>7 DEF Ran, vars
  <2>2. /\ job[started[k].worker] = started[k].task
        /\ ~(Home[c] < todo[started[k].worker])
        /\ Home[c] < todo'[started[k].worker]
    BY <1>13, <2>1 DEF Ran
  <2>3. started[k].worker = w
    BY <1>9, <1>11, <2>2
  <2>4. Home[c] = j
    <3>1. Home[c] \in Nat /\ j \in Nat
      BY Consts
    <3> QED
      BY <1>2, <1>9, <2>2, <2>3, <3>1
  <2>5. i = h /\ x = job[w].n
    BY <1>3, <2>1, <2>2, <2>3, Consts DEF LoopTask
  <2>6. m = body[i][x] /\ m = body'[i][x]
    BY <1>3, <1>4, <1>7, <2>5
  <2>7. c \in R
    <3>1. c \in HomeOf(j) /\ c \in members[j]
      BY <2>4 DEF HomeOf, Inv, RTypes
    <3> QED
      BY <2>6, <3>1 DEF Recipients, Addressed
  <2>8. PICK y \in DOMAIN q : q[y] = [to |-> c, msg |-> m]
    BY <1>6, <2>7
  <2>9. /\ Len(mail[j]) + y \in DOMAIN mail'[j]
        /\ mail'[j][Len(mail[j]) + y] = [to |-> c, msg |-> m]
    BY <1>10, <2>8
  <2> QED
    BY <2>4, <2>6, <2>9 DEF InMail
<1> QED
  BY <1>12, <1>13

(* Every step keeps DealtWith.                                             *)
LEMMA DealtStep ==
  ASSUME Inv, DealtWith, [RNext]_rvars
  PROVE  DealtWith'
<1>1. ASSUME NEW c \in Conns, Open(c) \/ Close(c) \/ Traffic(c)
      PROVE  DealtWith'
  <2>1. UNCHANGED <<mail, wire, example>>
    BY <1>1 DEF Open, Close, Traffic
  <2> QED
    BY <1>1, <2>1, CallersDeal, DealtFrame
<1>2. ASSUME NEW i \in Loops, Blocked(i)
      PROVE  DealtWith'
  <2>1. UNCHANGED <<mail, wire, example>>
    BY <1>2 DEF Blocked, replies
  <2> QED
    BY <1>2, <2>1, CallersDeal, DealtFrame
<1>3. ASSUME \/ \E w \in WorkerIds : BeginTask(w) \/ FinishTask(w)
             \/ \E p \in Pools : StartPool(p) \/ PoolStep(p)
      PROVE  DealtWith'
  <2>1. UNCHANGED <<mail, wire, example>>
    BY <1>3 DEF BeginTask, FinishTask, StartPool, PoolStep, replies
  <2> QED
    BY <1>3, <2>1, WorkersDeal, DealtFrame
<1>4. CASE UNCHANGED rvars
  <2>1. UNCHANGED <<state, body, since, mail, wire, example,
                    started, worker, job, todo>>
    BY <1>4 DEF rvars, replies, vars, threads, history
  <2>2. NoNewDealing
    BY <2>1, RanSame DEF NoNewDealing
  <2> QED
    BY <2>1, <2>2, DealtFrame
<1> QED
  BY <1>1, <1>2, <1>3, <1>4, WriteDeals, DeliverDeals DEF RNext, TaskStep

-----------------------------------------------------------------------------
(* When a message has been said to a shard, every earlier one of the same  *)
(* sender that the pool accepted has been said there, too: its task ran    *)
(* before on the same worker.                                              *)
LEMMA EarlierSaid ==
  ASSUME Inv, AcceptedKnown, NEW m \in Msgs, NEW j \in Nat, Said(m, j),
         NEW p \in Pools, NEW t \in accepted[p], NEW o, o = Captured(t),
         o.from = m.from, o.n < m.n
  PROVE  \E i \in Loops : \E y \in DOMAIN body[i] :
           body[i][y] = o /\ Ran(i, y, j)
<1>1. PICK i \in Loops :
        \E x \in DOMAIN body[i] : body[i][x] = m /\ Ran(i, x, j)
  BY DEF Said
<1>2. PICK x \in DOMAIN body[i] : body[i][x] = m /\ Ran(i, x, j)
  BY <1>1
<1>3. PICK k \in DOMAIN started :
        started[k].task.by = LoopOf[i] /\ started[k].task.n = x
  BY <1>2 DEF Ran
<1>4. PICK g \in Loops :
        /\ LoopTask(t, g) /\ t.n \in DOMAIN body[g] /\ o = body[g][t.n]
        /\ o \in Msgs
  BY AcceptedTask
<1>5. g = i
  BY <1>2, <1>4 DEF Inv, BodyOrder
<1>6. t \in Tasks /\ t.n \in Nat /\ x \in Nat /\ m.n \in Nat /\ o.n \in Nat
  <2>1. t \in Tasks
    BY AcceptedTask
  <2>2. body[i] \in Seq(Msgs)
    BY DEF Inv, RTypes
  <2> QED
    BY <1>4, <2>1, <2>2 DEF Tasks, Msgs
<1>7. t.n < x
  <2>1. t.n # x
    BY <1>2, <1>4, <1>5, <1>6
  <2>2. ASSUME x < t.n PROVE FALSE
    <3>1. Before(m, o)
      BY <1>2, <1>4, <1>5, <2>2 DEF Inv, BodyOrder
    <3> QED
      BY <1>6, <3>1 DEF Before
  <2> QED
    BY <1>6, <2>1, <2>2
<1>8. started[k].worker = Lane(i)
  <2>1. PICK f \in Loops : LoopTask(started[k].task, f) /\ started[k].worker = Lane(f)
    BY StartedTask DEF Inv
  <2> QED
    BY <1>3, <2>1, Consts DEF LoopTask
<1>9. \A w \in WorkerIds : \A y \in DOMAIN chan[w] : chan[w][y] # t
  <2> SUFFICES ASSUME NEW w \in WorkerIds, NEW y \in DOMAIN chan[w],
                      chan[w][y] = t
               PROVE  FALSE
    OBVIOUS
  <2>1. PICK f \in Loops : LoopTask(t, f) /\ w = Lane(f)
    BY ChannelTask DEF Inv
  <2>2. w = started[k].worker
    BY <1>4, <1>5, <1>8, <2>1, Consts DEF LoopTask
  <2>3. Older(started[k].task, t)
    BY <2>2 DEF Inv, PoolInv, OrderInv, ChannelOrder
  <2> QED
    BY <1>3, <1>4, <1>5, <1>6, <1>7, <2>3 DEF Older, LoopTask
<1>10. PICK l \in DOMAIN started : started[l].task = t
  BY <1>9 DEF AcceptedKnown
<1>11. started[l].worker = Lane(i)
  <2>1. PICK f \in Loops : LoopTask(started[l].task, f) /\ started[l].worker = Lane(f)
    BY StartedTask DEF Inv
  <2> QED
    BY <1>4, <1>5, <1>10, <2>1, Consts DEF LoopTask
<1>12. PICK v \in WorkerIds : v = Lane(i) /\ started[l].worker = v
                              /\ started[k].worker = v
  BY <1>8, <1>11, Elements DEF Inv, PoolInv
<1>13. l < k /\ l \in Nat /\ k \in Nat
  <2>1. l \in Nat /\ k \in Nat
    BY DEF Inv, PoolInv, TypeInv, TypeOK
  <2>2. l # k
    BY <1>3, <1>6, <1>7, <1>10
  <2>3. ASSUME k < l PROVE FALSE
    <3>1. Older(started[k].task, started[l].task)
      BY <1>12, <2>3 DEF Inv, PoolInv, OrderInv, StartedOrder
    <3> QED
      BY <1>3, <1>4, <1>5, <1>6, <1>7, <1>10, <3>1 DEF Older, LoopTask
  <2> QED
    BY <2>1, <2>2, <2>3
<1>14. ~(worker[v] = "busy" /\ job[v] = t)
  <2> SUFFICES ASSUME worker[v] = "busy", job[v] = t PROVE FALSE
    OBVIOUS
  <2>1. PICK z \in DOMAIN started :
          /\ started[z].task = t /\ started[z].worker = v
          /\ \A y \in DOMAIN started : z < y => started[y].worker # v
    BY DEF Inv, BusyLast
  <2>2. z \in Nat /\ ~(z < k)
    BY <1>12, <2>1 DEF Inv, PoolInv, TypeInv, TypeOK
  <2>3. l < z
    BY <1>13, <2>2
  <2>4. Older(started[l].task, started[z].task)
    BY <1>12, <2>1, <2>3 DEF Inv, PoolInv, OrderInv, StartedOrder
  <2> QED
    BY <1>6, <1>10, <2>1, <2>4 DEF Older
<1>15. Ran(i, t.n, j)
  BY <1>4, <1>5, <1>10, <1>12, <1>14 DEF Ran, LoopTask
<1> QED
  BY <1>4, <1>5, <1>15

(* A connection has what it had, and what the loop has just written to it. *)
LEMMA GotStep ==
  ASSUME Inv, [RNext]_rvars, NEW c \in Conns, NEW d \in Conns, NEW n \in Nat
  PROVE  /\ Got(c, d, n) => Got(c, d, n)'
         /\ Got(c, d, n)' =>
              \/ Got(c, d, n)
              \/ /\ Write(Home[c]) /\ state[c] = "live"
                 /\ 1 \in DOMAIN mail[Home[c]]
                 /\ mail[Home[c]][1] = [to |-> c, msg |-> [from |-> d, n |-> n]]
<1>1. CASE UNCHANGED wire
  BY <1>1 DEF Got
<1>2. ASSUME NEW i \in Loops, Write(i)
      PROVE  /\ Got(c, d, n) => Got(c, d, n)'
             /\ Got(c, d, n)' =>
                  \/ Got(c, d, n)
                  \/ /\ Write(Home[c]) /\ state[c] = "live"
                     /\ 1 \in DOMAIN mail[Home[c]]
                     /\ mail[Home[c]][1]
                          = [to |-> c, msg |-> [from |-> d, n |-> n]]
  <2>1. mail[i] \in Seq(Mails) /\ mail[i] # <<>>
        /\ wire \in [Conns -> Seq(Msgs)]
    BY <1>2 DEF Write, Inv, RTypes
  <2>2. 1 \in DOMAIN mail[i] /\ mail[i][1] = Head(mail[i])
        /\ Head(mail[i]) \in Mails
    BY <2>1, TailElements
  <2>3. PICK e \in Mails : e = Head(mail[i])
    BY <2>2
  <2>4. PICK a \in Conns, o \in Msgs : e = [to |-> a, msg |-> o]
    BY DEF Mails
  <2>5. Home[a] = i
    BY <2>2, <2>3, <2>4 DEF Inv, Sources
  <2>6. /\ state[a] = "live" => wire' = [wire EXCEPT ![a] = Append(@, o)]
        /\ state[a] # "live" => wire' = wire
    <3>1. Head(mail[i]).to = a /\ Head(mail[i]).msg = o
      BY <2>3, <2>4
    <3> QED
      BY <1>2, <3>1 DEF Write
  <2>7. CASE wire'[c] = wire[c]
    BY <2>7 DEF Got
  <2>8. CASE c = a /\ state[a] = "live" /\ wire'[c] = Append(wire[c], o)
    <3>1. wire[c] \in Seq(Msgs)
      BY <2>1
    <3>2. /\ \A k \in DOMAIN wire[c] :
               k \in DOMAIN wire'[c] /\ wire'[c][k] = wire[c][k]
          /\ \A k \in DOMAIN wire'[c] :
               (k \in DOMAIN wire[c] /\ wire'[c][k] = wire[c][k])
               \/ wire'[c][k] = o
      BY <2>8, <3>1, AppendElements
    <3>3. Got(c, d, n) => Got(c, d, n)'
      BY <3>2 DEF Got
    <3>4. Got(c, d, n)' => Got(c, d, n) \/ o = [from |-> d, n |-> n]
      BY <3>2 DEF Got
    <3>5. mail[Home[c]][1] = [to |-> c, msg |-> o] /\ Write(Home[c])
          /\ 1 \in DOMAIN mail[Home[c]] /\ state[c] = "live"
      BY <1>2, <2>2, <2>3, <2>4, <2>5, <2>8
    <3> QED
      BY <3>3, <3>4, <3>5
  <2> QED
    BY <2>1, <2>6, <2>7, <2>8
<1>3. UNCHANGED wire \/ \E i \in Loops : Write(i)
  <2>1. ASSUME NEW c1 \in Conns, Open(c1) \/ Close(c1) \/ Traffic(c1)
        PROVE  UNCHANGED wire
    BY <2>1 DEF Open, Close, Traffic
  <2>2. ASSUME NEW i \in Loops, Blocked(i) PROVE UNCHANGED wire
    BY <2>2 DEF Blocked, replies
  <2>3. ASSUME NEW w \in WorkerIds, TaskStep(w) PROVE UNCHANGED wire
    BY <2>3 DEF TaskStep, BeginTask, Deliver, FinishTask, replies
  <2>4. ASSUME NEW p \in Pools, StartPool(p) \/ PoolStep(p)
        PROVE  UNCHANGED wire
    BY <2>4 DEF StartPool, PoolStep, replies
  <2>5. CASE UNCHANGED rvars
    BY <2>5 DEF rvars, replies
  <2> QED
    BY <2>1, <2>2, <2>3, <2>4, <2>5 DEF RNext
<1> QED
  BY <1>1, <1>2, <1>3

(* A message a connection has got is one of those its sender's loop        *)
(* captured.                                                               *)
LEMMA GotCaptured ==
  ASSUME Inv, NEW c \in Conns, NEW d \in Conns, NEW n \in Nat, Got(c, d, n)
  PROVE  /\ n <= asked[d]
         /\ \E x \in DOMAIN body[Home[d]] :
              body[Home[d]][x] = [from |-> d, n |-> n]
<1>1. PICK m \in Msgs : m = [from |-> d, n |-> n]
  BY DEF Msgs
<1>2. PICK k \in DOMAIN wire[c] : wire[c][k] = m
  BY <1>1 DEF Got
<1>3. Said(m, Home[c])
  BY <1>2 DEF Inv, Sources
<1>4. PICK i \in Loops : \E x \in DOMAIN body[i] : body[i][x] = m
  BY <1>3 DEF Said
<1>5. PICK x \in DOMAIN body[i] : body[i][x] = m
  BY <1>4
<1>6. Home[d] = i /\ n <= asked[d]
  BY <1>1, <1>5 DEF Inv, BodyOrder
<1> QED
  BY <1>1, <1>5, <1>6

(* When a step moves the start of c, no request of d is later.             *)
LEMMA SinceStep ==
  ASSUME Inv, [RNext]_rvars, NEW c \in Conns, NEW d \in Conns
  PROVE  \/ since'[c][d] = since[c][d]
         \/ since'[c][d] = asked[d] /\ asked'[d] = asked[d]
<1>1. ASSUME NEW a \in Conns, Open(a)
      PROVE  \/ since'[c][d] = since[c][d]
             \/ since'[c][d] = asked[d] /\ asked'[d] = asked[d]
  <2>1. since' = [since EXCEPT ![a] = asked] /\ asked' = asked
    BY <1>1 DEF Open
  <2> QED
    BY <2>1 DEF Inv, RTypes
<1>2. ASSUME NEW a \in Conns, Close(a) \/ Traffic(a) PROVE UNCHANGED since
  BY <1>2 DEF Close, Traffic
<1>3. ASSUME NEW i \in Loops, Blocked(i) \/ Write(i) PROVE UNCHANGED since
  BY <1>3 DEF Blocked, Write, replies
<1>4. ASSUME NEW w \in WorkerIds, TaskStep(w) PROVE UNCHANGED since
  BY <1>4 DEF TaskStep, BeginTask, Deliver, FinishTask, replies
<1>5. ASSUME NEW p \in Pools, StartPool(p) \/ PoolStep(p) PROVE UNCHANGED since
  BY <1>5 DEF StartPool, PoolStep, replies
<1>6. CASE UNCHANGED rvars
  BY <1>6 DEF rvars, replies
<1> QED
  BY <1>1, <1>2, <1>3, <1>4, <1>5, <1>6 DEF RNext

(* Every step keeps completeness.                                          *)
LEMMA CompleteStep ==
  ASSUME Inv, FullInv, [RNext]_rvars
  PROVE  RepliesComplete'
<1> SUFFICES ASSUME NEW c \in Conns, NEW d \in Conns, NEW n \in 1..asked'[d],
                    Got(c, d, n)', NEW k \in (since'[c][d] + 1)..(n - 1),
                    AcceptedMsg(d, k)'
             PROVE  Got(c, d, k)'
  BY DEF RepliesComplete
<1>1. Inv' /\ Onward
  BY ReplyStep
<1>2. asked'[d] \in Nat /\ since'[c][d] \in Nat /\ asked[d] \in Nat
      /\ since[c][d] \in Nat
  BY <1>1 DEF Inv, RTypes
<1>3. n \in Nat \ {0} /\ k \in Nat /\ k < n /\ since'[c][d] < k /\ n <= asked'[d]
  BY <1>2
<1>4. since'[c][d] = since[c][d] /\ since[c][d] < k
  BY <1>2, <1>3, SinceStep
<1>5. PICK p \in Pools : \E t \in accepted'[p] :
        Captured(t)' = [from |-> d, n |-> k]
  BY DEF AcceptedMsg
<1>6. PICK t \in accepted'[p] : Captured(t)' = [from |-> d, n |-> k]
  BY <1>5
<1>7. ASSUME t \in accepted[p]
      PROVE  Captured(t) = [from |-> d, n |-> k]
  <2>1. PICK i \in Loops : LoopTask(t, i) /\ t.n \in DOMAIN body[i]
    BY <1>7, AcceptedTask DEF FullInv
  <2> QED
    BY <1>1, <1>6, <2>1, CapturedKept
<1>8. CASE Got(c, d, n)
  <2>1. PICK x \in DOMAIN body[Home[d]] :
          n <= asked[d] /\ body[Home[d]][x] = [from |-> d, n |-> n]
    BY <1>3, <1>8, GotCaptured
  <2>2. t \in accepted[p]
    <3> SUFFICES ASSUME t \notin accepted[p] PROVE FALSE
      OBVIOUS
    <3>1. PICK i \in Loops : /\ LoopTask(t, i) /\ t.n \in DOMAIN body[i]
                             /\ t.n = Len(body[i])
                             /\ Captured(t) = body[i][t.n]
      BY Accepting
    <3>2. Captured(t)' = Captured(t) /\ Captured(t) = body[i][t.n]
      BY <1>1, <3>1, CapturedKept
    <3>3. body[i][t.n] = [from |-> d, n |-> k]
      BY <1>6, <3>2
    <3>4. Home[d] = i
      BY <3>1, <3>3 DEF Inv, BodyOrder
    <3>5. x <= t.n /\ x \in Nat /\ t.n \in Nat
      BY <3>1, <3>4 DEF Inv, RTypes
    <3>6. x # t.n
      BY <1>3, <2>1, <3>3, <3>4
    <3>7. Before(body[i][x], body[i][t.n])
      BY <3>1, <3>4, <3>5, <3>6 DEF Inv, BodyOrder
    <3> QED
      BY <1>3, <2>1, <3>3, <3>4, <3>7 DEF Before
  <2>3. AcceptedMsg(d, k)
    BY <1>7, <2>2 DEF AcceptedMsg
  <2>4. n \in 1..asked[d] /\ k \in (since[c][d] + 1)..(n - 1)
    BY <1>2, <1>3, <1>4, <2>1
  <2>5. Got(c, d, k)
    BY <1>8, <2>3, <2>4 DEF FullInv, RepliesComplete
  <2> QED
    BY <1>3, <2>5, GotStep
<1>9. CASE ~Got(c, d, n)
  <2>1. PICK m \in Msgs, o \in Msgs :
          m = [from |-> d, n |-> n] /\ o = [from |-> d, n |-> k]
    BY <1>3 DEF Msgs
  <2>2. PICK j \in Loops : j = Home[c]
    BY Consts
  <2>3. /\ Write(j) /\ state[c] = "live" /\ 1 \in DOMAIN mail[j]
        /\ mail[j][1] = [to |-> c, msg |-> m]
    BY <1>3, <1>9, <2>1, <2>2, GotStep
  <2>4. Said(m, j) /\ c \in Addressed(d)
    BY <2>1, <2>3 DEF Inv, Sources
  <2>5. t \in accepted[p]
    BY <2>3 DEF Write, vars, history
  <2>6. o = Captured(t) /\ o.from = m.from /\ o.n < m.n
    BY <1>3, <1>7, <2>1, <2>5
  <2>7. PICK i \in Loops : \E y \in DOMAIN body[i] :
          body[i][y] = o /\ Ran(i, y, j)
    BY <2>4, <2>5, <2>6, EarlierSaid, Consts DEF FullInv
  <2>8. PICK y \in DOMAIN body[i] : body[i][y] = o /\ Ran(i, y, j)
    BY <2>7
  <2>9. Arrived(c, o) \/ InMail(c, o)
    <3>1. body[i][y].from = d /\ body[i][y].n = k
      BY <2>1, <2>8
    <3> QED
      BY <1>4, <2>2, <2>3, <2>4, <2>8, <3>1 DEF FullInv, DealtWith
  <2>10. ~InMail(c, o)
    <3> SUFFICES ASSUME InMail(c, o) PROVE FALSE
      OBVIOUS
    <3>1. PICK z \in DOMAIN mail[j] : mail[j][z] = [to |-> c, msg |-> o]
      BY <2>2 DEF InMail
    <3>2. z # 1
      BY <2>3, <2>6, <3>1, <1>3, <2>1
    <3>3. 1 < z
      BY <3>2 DEF Inv, RTypes
    <3>4. Before(m, o)
      BY <2>3, <3>1, <3>3 DEF Inv, MailOrder
    <3> QED
      BY <1>3, <2>1, <3>4 DEF Before
  <2>11. Got(c, d, k)
    BY <2>1, <2>9, <2>10 DEF Arrived, Got
  <2> QED
    BY <1>3, <2>11, GotStep
<1> QED
  BY <1>8, <1>9

(* Nothing has been asked or accepted initially.                           *)
LEMMA FullInit == RInit => FullInv
<1> SUFFICES ASSUME RInit PROVE FullInv
  OBVIOUS
<1>1. AcceptedKnown
  BY DEF RInit, Init, AcceptedKnown
<1>2. \A i \in Loops : DOMAIN body[i] = {}
  BY DEF RInit
<1>3. DealtWith
  BY <1>2 DEF DealtWith
<1>4. RepliesComplete
  <2>1. \A c \in Conns : DOMAIN wire[c] = {}
    BY DEF RInit
  <2> QED
    BY <2>1 DEF RepliesComplete, Got
<1> QED
  BY <1>1, <1>3, <1>4 DEF FullInv

(* No gaps: who has got a request of a sender has got every earlier one    *)
(* that the pool accepted since the receiver was opened, although the      *)
(* members come and go, the closures of several workers are under way and  *)
(* submit drops what finds no pool (chat-room.rs 56-79).                   *)
THEOREM RepliesWhole == RSpec => []RepliesComplete
<1>1. Inv /\ FullInv /\ [RNext]_rvars => Inv' /\ FullInv'
  BY ReplyStep, KnownStep, DealtStep, CompleteStep DEF FullInv
<1>2. RInit => Inv /\ FullInv
  BY ReplyInit, FullInit
<1>3. RSpec => [](Inv /\ FullInv)
  BY <1>1, <1>2, PTL DEF RSpec
<1> QED
  BY <1>3, PTL DEF FullInv
=============================================================================
