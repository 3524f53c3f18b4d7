------------------------- MODULE CommandQueueProofs -------------------------
(***************************************************************************)
(* Proofs about CommandQueue, for any number of senders, any capacity and  *)
(* batch limits and any number of commands.                                *)
(***************************************************************************)
EXTENDS CommandQueue, TLAPS

-----------------------------------------------------------------------------
(* Types.  The batch counter needs one fact of control: the try_recv of    *)
(* the common channel happens inside an iteration that was still allowed.  *)
BudgetLeft == pc = "drainCommon" => budget > 0

TypeInv == TypeOK /\ BudgetLeft

(* The record a sender pushes is a command.                                *)
LEMMA InHandType ==
  ASSUME TypeOK, NEW t \in Threads
  PROVE  InHand(t) \in Commands
  BY DEF TypeOK, InHand, Commands

(* Taking the head of a channel in process_command keeps the types.        *)
LEMMA ReceiveTypes ==
  ASSUME TypeOK, budget > 0,
         \/ urgent # <<>> /\ Receive(urgent, common)
         \/ common # <<>> /\ Receive(common, urgent)
  PROVE  TypeInv'
<1>1. budget' \in 0..MaxBatch
  BY CommandQueueAssumption DEF TypeOK, Receive, Execute
<1>2. PICK c \in Commands : Execute(c)
  BY DEF TypeOK, Receive
<1>3. done' \in Seq(Commands)
  BY <1>2 DEF TypeOK, Execute
<1>5. at' \in [Threads -> {"idle", "sendUrgent", "sendCommon", "swap", "write"}]
  BY <1>2 DEF TypeOK, Execute, Threads
<1>4. urgent' \in Seq(Commands) /\ common' \in Seq(Commands)
  <2>1. ASSUME NEW q \in Seq(Commands), q # <<>>
        PROVE  Tail(q) \in Seq(Commands)
    BY <2>1
  <2>2. <<>> \in Seq(Commands)
    OBVIOUS
  <2> QED
    BY <2>1, <2>2 DEF TypeOK, Receive, Stop
<1> QED
  BY <1>1, <1>2, <1>3, <1>4, <1>5
     DEF TypeInv, BudgetLeft, TypeOK, Receive, Execute, Stop, waker

(* The initial state is well typed.                                        *)
LEMMA TypeInit == Init => TypeInv
<1> SUFFICES ASSUME Init
             PROVE  TypeInv
  OBVIOUS
<1>1. <<>> \in Seq(Commands)
  OBVIOUS
<1>2. urgent \in Seq(Commands) /\ common \in Seq(Commands) /\ done \in Seq(Commands)
  BY <1>1 DEF Init
<1>3. /\ at \in [Threads -> {"idle", "sendUrgent", "sendCommon", "swap", "write"}]
      /\ kind \in [Threads -> Kinds]
      /\ issued \in [Threads -> Nat]
      /\ budget \in 0..MaxBatch
  BY CommandQueueAssumption DEF Init, Kinds
<1>4. awoken \in BOOLEAN /\ edge \in BOOLEAN /\ pending \in BOOLEAN /\ wake \in BOOLEAN
  BY DEF Init
<1> QED
  BY <1>2, <1>3, <1>4 DEF Init, TypeInv, TypeOK, BudgetLeft

(* Every step keeps the types.                                             *)
LEMMA TypeStep == TypeInv /\ [Next]_vars => TypeInv'
<1> SUFFICES ASSUME TypeInv, [Next]_vars
             PROVE  TypeInv'
  OBVIOUS
<1> USE DEF TypeInv
<1>1. ASSUME NEW t \in Threads, NEW k \in Issues[t], Trigger(t, k)
      PROVE  TypeInv'
  <2>1. k \in Kinds
    BY CommandQueueAssumption
  <2> QED
    BY <1>1, <2>1 DEF Trigger, TypeOK, BudgetLeft, queues, waker, loop
<1>2. ASSUME NEW t \in Threads, Sending(t)
      PROVE  TypeInv'
  <2>1. CASE SendUrgent(t)
    <3>1. Append(urgent, InHand(t)) \in Seq(Commands)
      BY InHandType DEF TypeOK
    <3>2. urgent' \in Seq(Commands)
      BY <2>1, <3>1 DEF SendUrgent, SendTo, TypeOK
    <3>3. kind' \in [Threads -> Kinds]
      BY <2>1 DEF SendUrgent, SendTo, TypeOK, Kinds
    <3>4. at' \in [Threads -> {"idle", "sendUrgent", "sendCommon", "swap", "write"}]
      BY <2>1 DEF SendUrgent, SendTo, TypeOK
    <3> QED
      BY <2>1, <3>2, <3>3, <3>4
         DEF SendUrgent, SendTo, TypeOK, BudgetLeft, waker, loop
  <2>2. CASE SendCommon(t)
    <3>1. Append(common, InHand(t)) \in Seq(Commands)
      BY InHandType DEF TypeOK
    <3>2. common' \in Seq(Commands)
      BY <2>2, <3>1 DEF SendCommon, SendTo, TypeOK
    <3>3. kind' \in [Threads -> Kinds]
      BY <2>2 DEF SendCommon, SendTo, TypeOK, Kinds
    <3>4. at' \in [Threads -> {"idle", "sendUrgent", "sendCommon", "swap", "write"}]
      BY <2>2 DEF SendCommon, SendTo, TypeOK
    <3> QED
      BY <2>2, <3>2, <3>3, <3>4
         DEF SendCommon, SendTo, TypeOK, BudgetLeft, waker, loop
  <2>3. CASE Swap(t)
    BY <2>3 DEF Swap, TypeOK, BudgetLeft, queues, loop
  <2>4. CASE WriteEventfd(t)
    BY <2>4 DEF WriteEventfd, TypeOK, BudgetLeft, queues, loop
  <2> QED
    BY <1>2, <2>1, <2>2, <2>3, <2>4 DEF Sending
<1>3. CASE CheckUrgent
  BY <1>3 DEF CheckUrgent, TypeOK, BudgetLeft, queues, waker, senders
<1>4. CASE CheckCommon
  BY <1>4 DEF CheckCommon, TypeOK, BudgetLeft, queues, waker, senders
<1>5. CASE Poll
  <2>1. wake' \in BOOLEAN /\ edge' \in BOOLEAN
    BY <1>5 DEF Poll, TypeOK
  <2>2. budget' \in 0..MaxBatch
    BY <1>5, CommandQueueAssumption DEF Poll, StartDrain, TypeOK
  <2>3. pc' \in {"drain", "events"}
    BY <1>5 DEF Poll, StartDrain
  <2> QED
    BY <1>5, <2>1, <2>2, <2>3 DEF Poll, TypeOK, BudgetLeft, queues, senders
<1>6. CASE DrainUrgent
  BY <1>6, ReceiveTypes DEF DrainUrgent
<1>7. CASE UrgentEmpty
  BY <1>7 DEF UrgentEmpty, Draining, TypeOK, BudgetLeft, queues, waker, senders
<1>8. CASE DrainCommon
  BY <1>8, ReceiveTypes DEF DrainCommon, Draining, BudgetLeft
<1>9. CASE DrainEnd
  BY <1>9, CommandQueueAssumption
     DEF DrainEnd, TypeOK, BudgetLeft, queues, waker, senders
<1>10. CASE HandleWake
  <2>1. wake' \in BOOLEAN /\ awoken' \in BOOLEAN
    BY <1>10 DEF HandleWake, Reset
  <2>2. budget' \in 0..MaxBatch /\ pc' = "drain"
    BY <1>10, CommandQueueAssumption DEF HandleWake, StartDrain
  <2> QED
    BY <1>10, <2>1, <2>2 DEF HandleWake, TypeOK, BudgetLeft, queues, senders
<1>11. CASE EndBatch
  BY <1>11 DEF EndBatch, TypeOK, BudgetLeft, queues, waker, senders
<1>12. CASE PollOther
  BY <1>12 DEF PollOther, TypeOK, BudgetLeft, queues, waker, senders
<1>13. CASE PollInterrupted
  BY <1>13 DEF PollInterrupted, TypeOK, BudgetLeft, queues, waker, senders
<1>14. CASE Leave
  BY <1>14 DEF Leave, Stop, TypeOK, BudgetLeft, waker, senders
<1>15. CASE UNCHANGED vars
  BY <1>15 DEF vars, TypeOK, BudgetLeft, queues, waker, senders, loop
<1> QED
  BY <1>1, <1>2, <1>3, <1>4, <1>5, <1>6, <1>7, <1>8, <1>9, <1>10, <1>11,
     <1>12, <1>13, <1>14, <1>15 DEF Next, LoopStep

(* The variables of the command path keep their types in every behaviour;  *)
(* in particular process_command never takes more than                     *)
(* MAX_ASYNC_TASK_ONE_TIME commands in one call (event_loop.rs 284).       *)
THEOREM TypeCorrect == Spec => []TypeOK
<1>1. Spec => []TypeInv
  BY TypeInit, TypeStep, PTL DEF Spec
<1> QED
  BY <1>1, PTL DEF TypeInv

-----------------------------------------------------------------------------
(* No lost wake-up.  The flag and the eventfd are not written together, so *)
(* NoLostWakeup alone is not inductive.  What carries it over a step:      *)

(* a raised flag has an eventfd event behind it, not yet handled or not    *)
(* yet written;                                                            *)
FlagBacked ==
  awoken => edge \/ wake \/ \E t \in Threads : at[t] = "write"

(* a WAKE_TOKEN the loop was given is handled before it polls again;       *)
WakeHandled == pc \in {"check", "checkCommon", "poll"} => ~wake

(* a command that arrived behind the loop's back raises the flag.          *)
Announced == awoken \/ \E t \in Threads : at[t] = "swap"

SleepAnnounced ==
  /\ pc = "checkCommon" /\ urgent # <<>> => Announced
  /\ pc = "poll" /\ ~pending /\ HasPending => Announced

WakeInv == FlagBacked /\ WakeHandled /\ SleepAnnounced

(* The wake-up invariant holds initially: nothing is queued.               *)
LEMMA WakeInit == Init => WakeInv
  BY DEF Init, WakeInv, FlagBacked, WakeHandled, SleepAnnounced, HasPending

(* Every step of a sender or of the loop keeps the wake-up invariant.      *)
LEMMA WakeStep == TypeInv /\ WakeInv /\ [Next]_vars => WakeInv'
<1> SUFFICES ASSUME TypeInv, WakeInv, [Next]_vars
             PROVE  WakeInv'
  OBVIOUS
<1> USE DEF WakeInv, TypeInv
<1>1. ASSUME NEW t \in Threads, NEW k \in Issues[t], Trigger(t, k)
      PROVE  WakeInv'
  <2>1. \A u \in Threads : at[u] \in {"swap", "write"} => at'[u] = at[u]
    BY <1>1 DEF Trigger, TypeOK
  <2> QED
    BY <1>1, <2>1 DEF Trigger, FlagBacked, WakeHandled, SleepAnnounced,
       Announced, HasPending, queues, waker, loop
<1>2. ASSUME NEW t \in Threads, Sending(t)
      PROVE  WakeInv'
  <2>1. CASE SendUrgent(t) \/ SendCommon(t)
    <3>1. \A u \in Threads : at[u] \in {"swap", "write"} => at'[u] = at[u]
      BY <2>1 DEF SendUrgent, SendCommon, SendTo, TypeOK
    <3>2. pc # "stopped" => at'[t] = "swap"
      BY <2>1 DEF SendUrgent, SendCommon, SendTo, TypeOK
    <3>3. UNCHANGED <<awoken, edge, wake, pc>>
      BY <2>1 DEF SendUrgent, SendCommon, SendTo, waker, loop
    <3> QED
      BY <3>1, <3>2, <3>3 DEF FlagBacked, WakeHandled, SleepAnnounced, Announced
  <2>2. CASE Swap(t)
    <3>1. awoken' /\ FlagBacked'
      BY <2>2 DEF Swap, TypeOK, FlagBacked, loop
    <3> QED
      BY <2>2, <3>1 DEF Swap, WakeHandled, SleepAnnounced, Announced, loop
  <2>3. CASE WriteEventfd(t)
    <3>1. \A u \in Threads : at[u] = "swap" => at'[u] = "swap"
      BY <2>3 DEF WriteEventfd, TypeOK
    <3> QED
      BY <2>3, <3>1 DEF WriteEventfd, FlagBacked, WakeHandled, SleepAnnounced,
         Announced, HasPending, queues, loop
  <2> QED
    BY <1>2, <2>1, <2>2, <2>3 DEF Sending
<1>3. CASE CheckUrgent
  BY <1>3 DEF CheckUrgent, FlagBacked, WakeHandled, SleepAnnounced, Announced,
     HasPending, queues, waker, senders
<1>4. CASE CheckCommon
  BY <1>4 DEF CheckCommon, FlagBacked, WakeHandled, SleepAnnounced, Announced,
     HasPending, queues, waker, senders
<1>5. CASE Poll
  BY <1>5 DEF Poll, StartDrain, FlagBacked, WakeHandled, SleepAnnounced, senders
<1>6. CASE DrainUrgent \/ DrainCommon
  <2>1. /\ UNCHANGED <<awoken, edge, wake>>
        /\ pc' \in {"drain", "stopped"}
    BY <1>6 DEF DrainUrgent, DrainCommon, Receive, Execute, Stop, waker
  <2>2. \A u \in Threads : at[u] = "write" => at'[u] = "write"
    BY <1>6 DEF DrainUrgent, DrainCommon, Draining, Receive, Execute, TypeOK
  <2> QED
    BY <2>1, <2>2 DEF FlagBacked, WakeHandled, SleepAnnounced
<1>7. CASE UrgentEmpty \/ DrainEnd \/ PollOther \/ EndBatch
  <2>1. UNCHANGED <<awoken, edge, wake, at>>
    BY <1>7 DEF UrgentEmpty, DrainEnd, PollOther, EndBatch, waker, senders
  <2>2. \/ pc' \in {"drainCommon", "events"}
        \/ pc' = "check" /\ ~wake
    BY <1>7 DEF UrgentEmpty, DrainEnd, PollOther, EndBatch
  <2> QED
    BY <2>1, <2>2 DEF FlagBacked, WakeHandled, SleepAnnounced
<1>8. CASE HandleWake
  BY <1>8 DEF HandleWake, Reset, StartDrain, FlagBacked, WakeHandled,
     SleepAnnounced
<1>9. CASE PollInterrupted
  BY <1>9 DEF PollInterrupted, FlagBacked, WakeHandled, SleepAnnounced, waker,
     senders
<1>10. CASE Leave
  BY <1>10 DEF Leave, Stop, FlagBacked, WakeHandled, SleepAnnounced, waker,
     senders
<1>11. CASE UNCHANGED vars
  BY <1>11 DEF vars, FlagBacked, WakeHandled, SleepAnnounced, Announced,
     HasPending, queues, waker, senders, loop
<1> QED
  BY <1>1, <1>2, <1>3, <1>4, <1>5, <1>6, <1>7, <1>8, <1>9, <1>10, <1>11
     DEF Next, LoopStep

(* No command waits for a wake-up nobody will deliver: while the loop      *)
(* sleeps in epoll_wait with a command queued, the eventfd has an edge or  *)
(* a sender is about to write it, whatever the interleaving of the flag,   *)
(* the eventfd and the channels (poller.rs 89-98, event_loop.rs 217-247).  *)
THEOREM WakeupNotLost == Spec => []NoLostWakeup
<1>1. Spec => [](TypeInv /\ WakeInv)
  BY TypeInit, TypeStep, WakeInit, WakeStep, PTL DEF Spec
<1>2. WakeInv => NoLostWakeup
  BY DEF WakeInv, FlagBacked, WakeHandled, SleepAnnounced, Announced,
     NoLostWakeup, WakeInFlight
<1> QED
  BY <1>1, <1>2, PTL

-----------------------------------------------------------------------------
(* Order of the High commands of one thread.  The executed commands        *)
(* followed by the urgent channel are in order; a command in a channel or  *)
(* executed is older than the one its thread is about to push; and only    *)
(* Low commands take the common channel.                                   *)
High(c) == Priority(c.kind) = "High"

Before(c, d) == c.from = d.from /\ High(c) /\ High(d) => c.n < d.n

Ordered(q) == \A i, j \in DOMAIN q : i < j => Before(q[i], q[j])

Precedes(p, q) == \A i \in DOMAIN p, j \in DOMAIN q : Before(p[i], q[j])

Sent(c, iss, a) ==
  /\ c.n <= iss[c.from]
  /\ a[c.from] \in {"sendUrgent", "sendCommon"} => c.n < iss[c.from]

AllSent(q, iss, a) == \A i \in DOMAIN q : Sent(q[i], iss, a)

AllLow(q) == \A i \in DOMAIN q : ~High(q[i])

OrderInv ==
  /\ Ordered(done) /\ Ordered(urgent) /\ Precedes(done, urgent)
  /\ AllLow(common)
  /\ \A t \in Threads : at[t] = "sendCommon" => Priority(kind[t]) # "High"
  /\ AllSent(done, issued, at)
  /\ AllSent(urgent, issued, at)
  /\ AllSent(common, issued, at)

(* The elements of a sequence with one more at the end.                    *)
LEMMA AppendElements ==
  ASSUME NEW S, NEW q \in Seq(S), NEW c \in S
  PROVE  /\ DOMAIN q = 1..Len(q) /\ Len(q) \in Nat
         /\ DOMAIN Append(q, c) = 1..(Len(q) + 1)
         /\ \A i \in 1..Len(q) : Append(q, c)[i] = q[i]
         /\ Append(q, c)[Len(q) + 1] = c
  OBVIOUS

(* The elements of a sequence without the first.                           *)
LEMMA TailElements ==
  ASSUME NEW S, NEW q \in Seq(S), q # <<>>
  PROVE  /\ DOMAIN q = 1..Len(q) /\ Len(q) \in Nat
         /\ 1 \in DOMAIN q /\ Head(q) = q[1] /\ Head(q) \in S
         /\ DOMAIN Tail(q) = 1..(Len(q) - 1)
         /\ \A i \in DOMAIN Tail(q) : i + 1 \in DOMAIN q /\ Tail(q)[i] = q[i + 1]
  OBVIOUS

(* What pushing a command keeps of a channel.                              *)
LEMMA AppendKeeps ==
  ASSUME NEW q \in Seq(Commands), NEW c \in Commands, NEW iss, NEW a
  PROVE  /\ Ordered(q) /\ (\A i \in DOMAIN q : Before(q[i], c))
              => Ordered(Append(q, c))
         /\ AllSent(q, iss, a) /\ Sent(c, iss, a)
              => AllSent(Append(q, c), iss, a)
         /\ AllLow(q) /\ ~High(c) => AllLow(Append(q, c))
<1>1. ASSUME NEW i \in DOMAIN Append(q, c)
      PROVE  \/ i \in DOMAIN q /\ Append(q, c)[i] = q[i]
             \/ i = Len(q) + 1 /\ Append(q, c)[i] = c
  BY AppendElements
<1>2. ASSUME Ordered(q), \A i \in DOMAIN q : Before(q[i], c)
      PROVE  Ordered(Append(q, c))
  <2> SUFFICES ASSUME NEW i \in DOMAIN Append(q, c), NEW j \in DOMAIN Append(q, c),
                      i < j
               PROVE  Before(Append(q, c)[i], Append(q, c)[j])
    BY DEF Ordered
  <2>1. i \in DOMAIN q /\ Append(q, c)[i] = q[i]
    BY AppendElements
  <2> QED
    BY <1>1, <1>2, <2>1 DEF Ordered
<1>3. AllSent(q, iss, a) /\ Sent(c, iss, a) => AllSent(Append(q, c), iss, a)
  BY <1>1 DEF AllSent
<1>4. AllLow(q) /\ ~High(c) => AllLow(Append(q, c))
  BY <1>1 DEF AllLow
<1> QED
  BY <1>2, <1>3, <1>4

(* What receiving a command keeps of a channel.                            *)
LEMMA TailKeeps ==
  ASSUME NEW q \in Seq(Commands), q # <<>>, NEW iss, NEW a
  PROVE  /\ Ordered(q) => /\ Ordered(Tail(q))
                          /\ \A j \in DOMAIN Tail(q) : Before(Head(q), Tail(q)[j])
         /\ AllSent(q, iss, a) => AllSent(Tail(q), iss, a) /\ Sent(Head(q), iss, a)
         /\ AllLow(q) => AllLow(Tail(q)) /\ ~High(Head(q))
<1>1. ASSUME Ordered(q)
      PROVE  /\ Ordered(Tail(q))
             /\ \A j \in DOMAIN Tail(q) : Before(Head(q), Tail(q)[j])
  <2>1. ASSUME NEW i \in DOMAIN Tail(q), NEW j \in DOMAIN Tail(q), i < j
        PROVE  Before(Tail(q)[i], Tail(q)[j])
    <3>1. i + 1 < j + 1
      BY <2>1, TailElements
    <3> QED
      BY <1>1, <3>1, TailElements DEF Ordered
  <2>2. ASSUME NEW j \in DOMAIN Tail(q)
        PROVE  Before(Head(q), Tail(q)[j])
    <3>1. 1 < j + 1
      BY TailElements
    <3> QED
      BY <1>1, <3>1, TailElements DEF Ordered
  <2> QED
    BY <2>1, <2>2 DEF Ordered
<1>2. AllSent(q, iss, a) => AllSent(Tail(q), iss, a) /\ Sent(Head(q), iss, a)
  BY TailElements DEF AllSent
<1>3. AllLow(q) => AllLow(Tail(q)) /\ ~High(Head(q))
  BY TailElements DEF AllLow
<1> QED
  BY <1>1, <1>2, <1>3

(* That the executed commands come before the queued ones survives a       *)
(* push and a receive.                                                     *)
LEMMA PrecedesKeeps ==
  ASSUME NEW p \in Seq(Commands), NEW q \in Seq(Commands), Precedes(p, q),
         NEW c \in Commands
  PROVE  /\ (\A j \in DOMAIN q : Before(c, q[j])) => Precedes(Append(p, c), q)
         /\ (\A i \in DOMAIN p : Before(p[i], c)) => Precedes(p, Append(q, c))
         /\ q # <<>> => Precedes(p, Tail(q))
<1>1. (\A j \in DOMAIN q : Before(c, q[j])) => Precedes(Append(p, c), q)
  BY AppendElements DEF Precedes
<1>2. (\A i \in DOMAIN p : Before(p[i], c)) => Precedes(p, Append(q, c))
  BY AppendElements DEF Precedes
<1>3. q # <<>> => Precedes(p, Tail(q))
  BY TailElements DEF Precedes
<1> QED
  BY <1>1, <1>2, <1>3

(* An element of a sequence of commands is a command.                      *)
LEMMA SeqElement ==
  ASSUME NEW S, NEW q \in Seq(S), NEW i \in DOMAIN q
  PROVE  q[i] \in S
  OBVIOUS

(* A step in which no thread starts a send and only the loop's own at may  *)
(* change leaves every sent command a sent command.                        *)
NoNewSend ==
  /\ issued' = issued
  /\ \A t \in Threads :
       at'[t] \in {"sendUrgent", "sendCommon"} => at'[t] = at[t]

(* Such a step keeps that every command in q has been sent.                *)
LEMMA SentFrame ==
  ASSUME NEW q \in Seq(Commands), AllSent(q, issued, at), NoNewSend
  PROVE  AllSent(q, issued', at')
<1> SUFFICES ASSUME NEW i \in DOMAIN q
             PROVE  Sent(q[i], issued', at')
  BY DEF AllSent
<1>0. q[i] \in Commands
  BY SeqElement
<1>1. q[i].from \in Threads
  BY <1>0 DEF Commands
<1> QED
  BY <1>1 DEF AllSent, Sent, NoNewSend

(* Steps that move no command and start no send.                           *)
LEMMA OrderFrame ==
  ASSUME TypeOK, OrderInv, NoNewSend,
         UNCHANGED <<urgent, common, done, kind>>
  PROVE  OrderInv'
<1>1. /\ AllSent(done', issued', at') /\ AllSent(urgent', issued', at')
      /\ AllSent(common', issued', at')
  BY SentFrame DEF TypeOK, OrderInv
<1>2. \A t \in Threads : at'[t] = "sendCommon" => Priority(kind'[t]) # "High"
  BY DEF OrderInv, NoNewSend
<1> QED
  BY <1>1, <1>2 DEF OrderInv

(* The loop drops its channels; done is what it was.                       *)
LEMMA OrderStop ==
  ASSUME Ordered(done'), AllSent(done', issued', at'), Stop,
         \A t \in Threads : at'[t] = "sendCommon" => Priority(kind'[t]) # "High"
  PROVE  OrderInv'
<1>1. urgent' = <<>> /\ common' = <<>>
  BY DEF Stop
<1>2. DOMAIN urgent' = {} /\ DOMAIN common' = {}
  BY <1>1
<1> QED
  BY <1>2 DEF OrderInv, Ordered, Precedes, AllLow, AllSent

(* Nothing is queued or executed initially.                                *)
LEMMA OrderInit == Init => OrderInv
<1> SUFFICES ASSUME Init
             PROVE  OrderInv
  OBVIOUS
<1>1. DOMAIN urgent = {} /\ DOMAIN common = {} /\ DOMAIN done = {}
  BY DEF Init
<1>2. \A t \in Threads : at[t] # "sendCommon"
  BY DEF Init
<1> QED
  BY <1>1, <1>2 DEF OrderInv, Ordered, Precedes, AllLow, AllSent

(* Executing a command: it joins done and leaves its channel.              *)
LEMMA OrderReceive ==
  ASSUME TypeOK, OrderInv, at[Loop] = "idle",
         \/ urgent # <<>> /\ Receive(urgent, common)
         \/ common # <<>> /\ Receive(common, urgent)
  PROVE  OrderInv'
<1> DEFINE c == IF urgent # <<>> /\ Receive(urgent, common)
                THEN Head(urgent) ELSE Head(common)
<1>1. c \in Commands /\ Execute(c) /\ Sent(c, issued, at)
  BY TailElements, TailKeeps DEF TypeOK, OrderInv, Receive
<1>2. \A i \in DOMAIN done : Before(done[i], c)
  BY TailElements, TailKeeps DEF TypeOK, OrderInv, Receive, Precedes, Before
<1> HIDE DEF c
<1>3. NoNewSend /\ UNCHANGED kind /\ done' = Append(done, c)
  BY <1>1 DEF Execute, NoNewSend, TypeOK
<1>4. Ordered(done') /\ AllSent(done', issued, at)
  BY <1>1, <1>2, <1>3, AppendKeeps DEF TypeOK, OrderInv
<1>5. done' \in Seq(Commands)
  BY <1>1, <1>3 DEF TypeOK
<1>6. AllSent(done', issued', at')
  BY <1>3, <1>4, <1>5, SentFrame
<1>7. \A t \in Threads : at'[t] = "sendCommon" => Priority(kind'[t]) # "High"
  BY <1>3 DEF OrderInv, NoNewSend
<1>8. CASE Stop
  BY <1>4, <1>6, <1>7, <1>8, OrderStop
<1>9. CASE urgent # <<>> /\ Receive(urgent, common) /\ ~Stop
  <2>1. urgent' = Tail(urgent) /\ common' = common /\ c = Head(urgent)
    BY <1>9 DEF Receive, c
  <2>2. urgent' \in Seq(Commands)
    BY <1>9, <2>1 DEF TypeOK
  <2>3. Ordered(urgent') /\ AllSent(urgent', issued, at)
        /\ \A j \in DOMAIN urgent' : Before(c, urgent'[j])
    BY <1>9, <2>1, TailKeeps DEF TypeOK, OrderInv
  <2>4. Precedes(done, urgent')
    BY <1>1, <1>9, <2>1, PrecedesKeeps DEF TypeOK, OrderInv
  <2>5. Precedes(done', urgent')
    BY <1>1, <1>3, <2>2, <2>3, <2>4, PrecedesKeeps DEF TypeOK
  <2>6. AllSent(urgent', issued', at') /\ AllSent(common', issued', at')
    BY <1>3, <2>1, <2>2, <2>3, SentFrame DEF TypeOK, OrderInv
  <2> QED
    BY <1>4, <1>6, <1>7, <2>1, <2>3, <2>5, <2>6 DEF OrderInv
<1>10. CASE ~(urgent # <<>> /\ Receive(urgent, common)) /\ ~Stop
  <2>1. /\ common # <<>> /\ common' = Tail(common) /\ urgent' = urgent
        /\ c = Head(common)
    BY <1>10 DEF Receive, c
  <2>2. common' \in Seq(Commands)
    BY <2>1 DEF TypeOK
  <2>3. AllLow(common') /\ AllSent(common', issued, at) /\ ~High(c)
    BY <2>1, TailKeeps DEF TypeOK, OrderInv
  <2>4. Precedes(done', urgent')
    BY <1>1, <1>3, <2>1, <2>3, PrecedesKeeps DEF TypeOK, OrderInv, Before
  <2>5. AllSent(urgent', issued', at') /\ AllSent(common', issued', at')
    BY <1>3, <2>1, <2>2, <2>3, SentFrame DEF TypeOK, OrderInv
  <2> QED
    BY <1>4, <1>6, <1>7, <2>1, <2>3, <2>4, <2>5 DEF OrderInv
<1> QED
  BY <1>8, <1>9, <1>10

(* Every step keeps the order invariant.                                   *)
LEMMA OrderStep == TypeInv /\ OrderInv /\ [Next]_vars => OrderInv'
<1> SUFFICES ASSUME TypeOK, OrderInv, [Next]_vars
             PROVE  OrderInv'
  BY DEF TypeInv
<1>1. ASSUME NEW t \in Threads, NEW k \in Issues[t], Trigger(t, k)
      PROVE  OrderInv'
  <2>1. /\ UNCHANGED <<urgent, common, done>>
        /\ issued' = [issued EXCEPT ![t] = @ + 1]
        /\ kind' = [kind EXCEPT ![t] = k]
        /\ at' = [at EXCEPT ![t] = IF Overflows(k) THEN "sendCommon"
                                                   ELSE "sendUrgent"]
    BY <1>1 DEF Trigger, queues, loop
  <2>2. \A u \in Threads : at'[u] = "sendCommon" => Priority(kind'[u]) # "High"
    BY <2>1 DEF TypeOK, OrderInv, Overflows
  <2>3. ASSUME NEW q \in Seq(Commands), AllSent(q, issued, at)
        PROVE  AllSent(q, issued', at')
    <3> SUFFICES ASSUME NEW i \in DOMAIN q
                 PROVE  Sent(q[i], issued', at')
      BY DEF AllSent
    <3>1. q[i] \in Commands
      BY SeqElement
    <3>2. q[i].from \in Threads /\ q[i].n \in Nat
      BY <3>1 DEF Commands
    <3>3. Sent(q[i], issued, at)
      BY <2>3 DEF AllSent
    <3> QED
      BY <2>1, <3>2, <3>3 DEF Sent, TypeOK
  <2>4. /\ AllSent(done', issued', at') /\ AllSent(urgent', issued', at')
        /\ AllSent(common', issued', at')
    BY <2>1, <2>3 DEF TypeOK, OrderInv
  <2> QED
    BY <2>1, <2>2, <2>4 DEF OrderInv
<1>2. ASSUME NEW t \in Threads, SendUrgent(t)
      PROVE  OrderInv'
  <2> DEFINE c == InHand(t)
  <2>1. NoNewSend /\ UNCHANGED <<common, done>>
    BY <1>2 DEF SendUrgent, SendTo, NoNewSend, TypeOK, loop
  <2>2. \A u \in Threads : at'[u] = "sendCommon" => Priority(kind'[u]) # "High"
    BY <1>2 DEF SendUrgent, SendTo, TypeOK, OrderInv
  <2>3. c \in Commands /\ Sent(c, issued', at')
    BY <1>2, InHandType DEF SendUrgent, SendTo, InHand, Sent, TypeOK
  <2>4. ASSUME NEW q \in Seq(Commands), AllSent(q, issued, at)
        PROVE  \A i \in DOMAIN q : Before(q[i], c)
    <3> SUFFICES ASSUME NEW i \in DOMAIN q, q[i].from = t
                 PROVE  q[i].n < issued[t]
      BY DEF Before, InHand
    <3>1. Sent(q[i], issued, at) /\ at[t] = "sendUrgent"
      BY <1>2, <2>4 DEF AllSent, SendUrgent, SendTo
    <3> QED
      BY <3>1 DEF Sent
  <2>5. /\ AllSent(done', issued', at') /\ AllSent(urgent, issued', at')
        /\ AllSent(common', issued', at')
    BY <2>1, SentFrame DEF TypeOK, OrderInv
  <2>6. urgent' = urgent \/ urgent' = Append(urgent, c)
    BY <1>2 DEF SendUrgent, SendTo
  <2>7. CASE urgent' = urgent
    BY <2>1, <2>2, <2>5, <2>7 DEF OrderInv
  <2>8. CASE urgent' = Append(urgent, c)
    <3>1. AllSent(urgent', issued', at') /\ Ordered(urgent')
      BY <2>3, <2>4, <2>5, <2>8, AppendKeeps DEF TypeOK, OrderInv
    <3>2. Precedes(done', urgent')
      BY <2>1, <2>3, <2>4, <2>8, PrecedesKeeps DEF TypeOK, OrderInv
    <3> QED
      BY <2>1, <2>2, <2>5, <3>1, <3>2 DEF OrderInv
  <2> QED
    BY <2>6, <2>7, <2>8
<1>3. ASSUME NEW t \in Threads, SendCommon(t)
      PROVE  OrderInv'
  <2> DEFINE c == InHand(t)
  <2>1. NoNewSend /\ UNCHANGED <<urgent, done>>
    BY <1>3 DEF SendCommon, SendTo, NoNewSend, TypeOK, loop
  <2>2. \A u \in Threads : at'[u] = "sendCommon" => Priority(kind'[u]) # "High"
    BY <1>3 DEF SendCommon, SendTo, TypeOK, OrderInv
  <2>3. c \in Commands /\ Sent(c, issued', at') /\ ~High(c)
    BY <1>3, InHandType
       DEF SendCommon, SendTo, InHand, Sent, TypeOK, OrderInv, High
  <2>4. /\ AllSent(done', issued', at') /\ AllSent(urgent', issued', at')
        /\ AllSent(common, issued', at')
    BY <2>1, SentFrame DEF TypeOK, OrderInv
  <2>5. common' = common \/ common' = Append(common, c)
    BY <1>3 DEF SendCommon, SendTo
  <2>6. AllSent(common', issued', at') /\ AllLow(common')
    BY <2>3, <2>4, <2>5, AppendKeeps DEF TypeOK, OrderInv
  <2> QED
    BY <2>1, <2>2, <2>4, <2>6 DEF OrderInv
<1>4. ASSUME NEW t \in Threads, Swap(t) \/ WriteEventfd(t)
      PROVE  OrderInv'
  BY <1>4, OrderFrame DEF Swap, WriteEventfd, NoNewSend, TypeOK, queues, loop
<1>5. CASE DrainUrgent \/ DrainCommon
  BY <1>5, OrderReceive DEF DrainUrgent, DrainCommon, Draining
<1>6. CASE CheckUrgent \/ CheckCommon \/ PollOther \/ PollInterrupted
           \/ UrgentEmpty \/ DrainEnd \/ EndBatch
  BY <1>6, OrderFrame DEF CheckUrgent, CheckCommon, PollOther, PollInterrupted,
     UrgentEmpty, DrainEnd, EndBatch, NoNewSend, queues, senders
<1>7. CASE Poll \/ HandleWake
  BY <1>7, OrderFrame DEF Poll, HandleWake, NoNewSend, queues, senders
<1>8. CASE Leave
  <2>1. NoNewSend /\ UNCHANGED <<done, kind, at, issued>> /\ Stop
    BY <1>8 DEF Leave, NoNewSend, senders
  <2> QED
    BY <2>1, OrderStop DEF OrderInv
<1>9. CASE UNCHANGED vars
  BY <1>9, OrderFrame DEF vars, NoNewSend, queues, senders, loop
<1> QED
  BY <1>1, <1>2, <1>3, <1>4, <1>5, <1>6, <1>7, <1>8, <1>9
     DEF Next, LoopStep, Sending

(* High commands of one thread (AsyncWrite, Read, Write, Shutdown) are     *)
(* executed in the order the thread sent them: the length that trigger     *)
(* reads and the channel it then picks never let a later one overtake      *)
(* (event_loop.rs 76-93 and 284-292).                                      *)
THEOREM HighOrdered == Spec => []HighInOrder
<1>1. Spec => [](TypeInv /\ OrderInv)
  BY TypeInit, TypeStep, OrderInit, OrderStep, PTL DEF Spec
<1>2. OrderInv => HighInOrder
  BY DEF OrderInv, Ordered, Before, High, HighInOrder
<1> QED
  BY <1>1, <1>2, PTL

-----------------------------------------------------------------------------
(* The command path is a Mailbox.  Executing a command takes it out of the *)
(* set of waiting ones, which is so only because no command is in the      *)
(* channels twice.                                                         *)
Distinct(q) == \A i, j \in DOMAIN q : i # j => q[i] # q[j]

Apart(p, q) == \A i \in DOMAIN p, j \in DOMAIN q : p[i] # q[j]

NoDuplicates == Distinct(urgent) /\ Distinct(common) /\ Apart(urgent, common)

Elems(q) == {q[i] : i \in DOMAIN q}

(* A command about to be pushed is newer than those already sent by its    *)
(* thread, so it is none of them.                                          *)
LEMMA InHandNewer ==
  ASSUME TypeOK, NEW t \in Threads, at[t] \in {"sendUrgent", "sendCommon"},
         NEW q \in Seq(Commands), AllSent(q, issued, at)
  PROVE  /\ \A i \in DOMAIN q : q[i].from = t => q[i].n < InHand(t).n
         /\ \A i \in DOMAIN q : q[i] # InHand(t)
<1>1. ASSUME NEW i \in DOMAIN q, q[i].from = t
      PROVE  q[i].n < issued[t]
  BY <1>1 DEF AllSent, Sent
<1>2. InHand(t).n = issued[t] /\ InHand(t).from = t /\ issued[t] \in Nat
  BY DEF InHand, TypeOK
<1> QED
  BY <1>1, <1>2

(* What pushing a new command and receiving the first one do to the        *)
(* elements of a channel.                                                  *)
LEMMA ElemsAppend ==
  ASSUME NEW S, NEW q \in Seq(S), NEW c \in S
  PROVE  /\ Elems(Append(q, c)) = Elems(q) \cup {c}
         /\ Distinct(q) /\ (\A i \in DOMAIN q : q[i] # c)
              => Distinct(Append(q, c))
<1>1. Elems(Append(q, c)) \subseteq Elems(q) \cup {c}
  BY AppendElements DEF Elems
<1>2. Elems(q) \subseteq Elems(Append(q, c))
  BY AppendElements DEF Elems
<1>3. c \in Elems(Append(q, c))
  <2>1. Len(q) + 1 \in DOMAIN Append(q, c)
    BY AppendElements
  <2> QED
    BY <2>1, AppendElements DEF Elems
<1>4. ASSUME Distinct(q), \A i \in DOMAIN q : q[i] # c
      PROVE  Distinct(Append(q, c))
  BY <1>4, AppendElements DEF Distinct
<1> QED
  BY <1>1, <1>2, <1>3, <1>4

(* Without its first command, a channel has the other ones.                *)
LEMMA ElemsTail ==
  ASSUME NEW S, NEW q \in Seq(S), q # <<>>, Distinct(q)
  PROVE  /\ Elems(Tail(q)) = Elems(q) \ {Head(q)}
         /\ Head(q) \in Elems(q)
         /\ Distinct(Tail(q))
<1>1. Elems(Tail(q)) \subseteq Elems(q) \ {Head(q)}
  <2> SUFFICES ASSUME NEW i \in DOMAIN Tail(q)
               PROVE  Tail(q)[i] \in Elems(q) \ {Head(q)}
    BY DEF Elems
  <2>1. i + 1 \in DOMAIN q /\ Tail(q)[i] = q[i + 1] /\ i + 1 # 1
    BY TailElements
  <2> QED
    BY <2>1, TailElements DEF Elems, Distinct
<1>2. Elems(q) \ {Head(q)} \subseteq Elems(Tail(q))
  <2> SUFFICES ASSUME NEW i \in DOMAIN q, q[i] # Head(q)
               PROVE  q[i] \in Elems(Tail(q))
    BY DEF Elems
  <2>1. i - 1 \in DOMAIN Tail(q) /\ Tail(q)[i - 1] = q[i]
    BY TailElements
  <2> QED
    BY <2>1 DEF Elems
<1>3. Head(q) \in Elems(q)
  BY TailElements DEF Elems
<1>4. Distinct(Tail(q))
  <2> SUFFICES ASSUME NEW i \in DOMAIN Tail(q), NEW j \in DOMAIN Tail(q), i # j
               PROVE  Tail(q)[i] # Tail(q)[j]
    BY DEF Distinct
  <2>1. i + 1 # j + 1
    BY TailElements
  <2> QED
    BY <2>1, TailElements DEF Distinct
<1> QED
  BY <1>1, <1>2, <1>3, <1>4

(* The waiting commands are those of the two channels.                     *)
LEMMA WaitingElems == Waiting = Elems(urgent) \cup Elems(common)
  BY DEF Waiting, Elems

(* Nothing is queued initially, so nothing twice.                          *)
LEMMA DuplicatesInit == Init => NoDuplicates
<1> SUFFICES ASSUME Init
             PROVE  NoDuplicates
  OBVIOUS
<1>1. DOMAIN urgent = {} /\ DOMAIN common = {}
  BY DEF Init
<1> QED
  BY <1>1 DEF NoDuplicates, Distinct, Apart

(* A step that changes neither channel, done nor whether the loop runs is  *)
(* not seen from outside.                                                  *)
LEMMA MailboxStutter ==
  ASSUME NoDuplicates, UNCHANGED <<urgent, common, done>>,
         (pc' = "stopped") <=> (pc = "stopped")
  PROVE  NoDuplicates' /\ UNCHANGED Box!vars
  BY DEF NoDuplicates, Waiting, Box!vars

(* The loop ends and drops both channels.                                  *)
LEMMA MailboxStop ==
  ASSUME Stop
  PROVE  NoDuplicates' /\ Waiting' = {} /\ (pc # "stopped")' = FALSE
<1>1. DOMAIN urgent' = {} /\ DOMAIN common' = {}
  BY DEF Stop
<1> QED
  BY <1>1 DEF NoDuplicates, Distinct, Apart, Waiting, Stop

(* trigger's push is Post, or nothing when the loop has gone.              *)
LEMMA MailboxPost ==
  ASSUME TypeOK, OrderInv, NoDuplicates, NEW t \in Threads,
         SendUrgent(t) \/ SendCommon(t)
  PROVE  NoDuplicates' /\ [Box!Next]_(Box!vars)
<1> DEFINE c == InHand(t)
<1>1. at[t] \in {"sendUrgent", "sendCommon"} /\ UNCHANGED <<pc, done>>
  BY DEF SendUrgent, SendCommon, SendTo, loop
<1>2. CASE UNCHANGED <<urgent, common>>
  BY <1>1, <1>2, MailboxStutter
<1>3. CASE ~UNCHANGED <<urgent, common>>
  <2>1. /\ pc # "stopped"
        /\ \/ urgent' = Append(urgent, c) /\ common' = common
           \/ common' = Append(common, c) /\ urgent' = urgent
    BY <1>3 DEF SendUrgent, SendCommon, SendTo
  <2>2. c \in Commands
    BY InHandType
  <2>3. ASSUME NEW q \in Seq(Commands), AllSent(q, issued, at)
        PROVE  \A d \in Elems(q) : (d.from = t => d.n < c.n) /\ d # c
    BY <1>1, <2>3, InHandNewer DEF Elems
  <2>4. \A d \in Waiting \cup Elems(done) :
          (d.from = t => d.n < c.n) /\ d # c
    BY <2>3, WaitingElems DEF TypeOK, OrderInv
  <2> HIDE DEF c
  <2>9. urgent \in Seq(Commands) /\ common \in Seq(Commands)
    BY DEF TypeOK
  <2>5. Waiting' = Waiting \cup {c}
    <3>1. Waiting' = Elems(urgent') \cup Elems(common')
      BY DEF Waiting, Elems
    <3>2. /\ Elems(Append(urgent, c)) = Elems(urgent) \cup {c}
          /\ Elems(Append(common, c)) = Elems(common) \cup {c}
      BY <2>2, <2>9, ElemsAppend
    <3> QED
      BY <2>1, <3>1, <3>2, WaitingElems
  <2>6. NoDuplicates'
    <3>1. /\ \A i \in DOMAIN urgent : urgent[i] # c
          /\ \A i \in DOMAIN common : common[i] # c
      BY <2>4 DEF Waiting
    <3>5. Distinct(Append(urgent, c)) /\ Distinct(Append(common, c))
      BY <2>2, <2>9, <3>1, ElemsAppend DEF NoDuplicates
    <3>2. Distinct(urgent') /\ Distinct(common')
      BY <2>1, <3>5 DEF NoDuplicates
    <3>3. Apart(Append(urgent, c), common) /\ Apart(urgent, Append(common, c))
      BY <2>2, <2>9, <3>1, AppendElements DEF NoDuplicates, Apart
    <3>4. Apart(urgent', common')
      BY <2>1, <3>3
    <3> QED
      BY <3>2, <3>4 DEF NoDuplicates
  <2>7. Box!Post(c)
    <3>1. c.from = t /\ c.kind \in Kinds
      BY DEF c, InHand, TypeOK
    <3> QED
      BY <1>1, <2>1, <2>4, <2>5, <3>1 DEF Box!Post, Box!Executed, Elems
  <2>8. Box!Next
    BY <2>5, <2>7 DEF Box!Next
  <2> QED
    BY <2>6, <2>8
<1> QED
  BY <1>2, <1>3

(* A receive of process_command is Run: the command was waiting, it is its *)
(* turn, and it waits no longer.                                           *)
LEMMA MailboxRun ==
  ASSUME TypeOK, OrderInv, NoDuplicates, pc # "stopped",
         NEW q \in {urgent, common}, q # <<>>,
         \/ q = urgent /\ Receive(urgent, common)
         \/ q = common /\ Receive(common, urgent)
  PROVE  NoDuplicates' /\ [Box!Next]_(Box!vars)
<1> DEFINE c == Head(q)
<1>1. q \in Seq(Commands) /\ c \in Commands
  BY TailElements DEF TypeOK
<1>2. c \in Elems(q) /\ c \in Waiting /\ c = q[1] /\ 1 \in DOMAIN q
  BY <1>1, WaitingElems, ElemsTail, TailElements DEF NoDuplicates
<1>3. done' = Append(done, c)
  BY DEF Receive, Execute
<1>4. Box!Due(c)
  <2> SUFFICES ASSUME c.kind \in Kinds, High(c),
                      NEW d \in Waiting, d.from = c.from, d.kind \in Kinds, High(d)
               PROVE  c.n <= d.n
    BY DEF Box!Due, High
  <2>1. q = urgent /\ d \in Elems(urgent)
    BY <1>2, WaitingElems DEF OrderInv, AllLow, Elems
  <2>2. PICK i \in DOMAIN urgent : d = urgent[i]
    BY <2>1 DEF Elems
  <2>3. CASE i = 1
    BY <1>1, <1>2, <2>1, <2>2, <2>3 DEF Commands
  <2>4. CASE i # 1
    <3>1. 1 < i
      BY <1>1, <2>1, <2>4, TailElements
    <3>2. Before(c, d)
      BY <1>2, <2>1, <2>2, <3>1 DEF OrderInv, Ordered
    <3>3. d \in Commands
      BY <2>2, SeqElement DEF TypeOK
    <3>4. c.n < d.n /\ c.n \in Nat /\ d.n \in Nat
      BY <1>1, <3>2, <3>3 DEF Before, Commands
    <3> QED
      BY <3>4
  <2> QED
    BY <2>3, <2>4
<1>5. CASE c.kind = "Shutdown"
  <2>1. Stop
    BY <1>5 DEF Receive
  <2>2. Box!Run(c)
    BY <1>2, <1>3, <1>4, <1>5, <2>1, MailboxStop DEF Box!Run
  <2> QED
    BY <1>2, <2>1, <2>2, MailboxStop DEF Box!Next
<1>6. CASE c.kind # "Shutdown"
  <2>1. /\ pc' = "drain"
        /\ \/ q = urgent /\ urgent' = Tail(urgent) /\ common' = common
           \/ q = common /\ common' = Tail(common) /\ urgent' = urgent
    BY <1>6 DEF Receive
  <2>2. NoDuplicates'
    <3>1. Distinct(urgent') /\ Distinct(common')
      BY <2>1, ElemsTail DEF TypeOK, NoDuplicates
    <3>2. /\ urgent # <<>> => Apart(Tail(urgent), common)
          /\ common # <<>> => Apart(urgent, Tail(common))
      BY TailElements DEF TypeOK, NoDuplicates, Apart
    <3>3. Apart(urgent', common')
      <4>1. CASE q = urgent /\ urgent' = Tail(urgent) /\ common' = common
        BY <3>2, <4>1
      <4>2. CASE q = common /\ common' = Tail(common) /\ urgent' = urgent
        BY <3>2, <4>2
      <4> QED
        BY <2>1, <4>1, <4>2
    <3> QED
      BY <3>1, <3>3 DEF NoDuplicates
  <2>3. /\ q = urgent => c \notin Elems(common)
        /\ q = common => c \notin Elems(urgent)
    BY <1>2 DEF NoDuplicates, Apart, Elems
  <2>4. Waiting' = Waiting \ {c}
    <3>1. Waiting' = Elems(urgent') \cup Elems(common')
      BY DEF Waiting, Elems
    <3>2. CASE q = urgent /\ urgent' = Tail(urgent) /\ common' = common
      BY <2>3, <3>1, <3>2, ElemsTail, WaitingElems DEF TypeOK, NoDuplicates
    <3>3. CASE q = common /\ common' = Tail(common) /\ urgent' = urgent
      BY <2>3, <3>1, <3>3, ElemsTail, WaitingElems DEF TypeOK, NoDuplicates
    <3> QED
      BY <2>1, <3>2, <3>3
  <2>5. Box!Run(c)
    BY <1>2, <1>3, <1>4, <1>6, <2>1, <2>4 DEF Box!Run
  <2> QED
    BY <1>2, <2>2, <2>5 DEF Box!Next
<1> QED
  BY <1>5, <1>6

(* Every step of the command path is a step of the mailbox or none.        *)
LEMMA MailboxStep ==
  TypeInv /\ OrderInv /\ NoDuplicates /\ [Next]_vars
    => NoDuplicates' /\ [Box!Next]_(Box!vars)
<1> SUFFICES ASSUME TypeOK, OrderInv, NoDuplicates, [Next]_vars
             PROVE  NoDuplicates' /\ [Box!Next]_(Box!vars)
  BY DEF TypeInv
<1>1. ASSUME NEW t \in Threads, NEW k \in Issues[t], Trigger(t, k)
      PROVE  NoDuplicates' /\ [Box!Next]_(Box!vars)
  BY <1>1, MailboxStutter DEF Trigger, queues, loop
<1>2. ASSUME NEW t \in Threads, SendUrgent(t) \/ SendCommon(t)
      PROVE  NoDuplicates' /\ [Box!Next]_(Box!vars)
  BY <1>2, MailboxPost
<1>3. ASSUME NEW t \in Threads, Swap(t) \/ WriteEventfd(t)
      PROVE  NoDuplicates' /\ [Box!Next]_(Box!vars)
  BY <1>3, MailboxStutter DEF Swap, WriteEventfd, queues, loop
<1>4. CASE DrainUrgent
  BY <1>4, MailboxRun DEF DrainUrgent, Draining
<1>5. CASE DrainCommon
  BY <1>5, MailboxRun DEF DrainCommon, Draining
<1>6. CASE CheckUrgent \/ CheckCommon \/ PollOther \/ PollInterrupted
           \/ UrgentEmpty \/ DrainEnd \/ EndBatch
  BY <1>6, MailboxStutter DEF CheckUrgent, CheckCommon, PollOther,
     PollInterrupted, UrgentEmpty, DrainEnd, EndBatch, Draining, queues
<1>7. CASE Poll \/ HandleWake
  BY <1>7, MailboxStutter DEF Poll, HandleWake, StartDrain, queues
<1>8. CASE Leave
  <2>1. Stop /\ UNCHANGED done
    BY <1>8 DEF Leave
  <2>2. Box!Drop
    BY <2>1, MailboxStop DEF Box!Drop
  <2> QED
    BY <2>1, <2>2, MailboxStop DEF Box!Next
<1>9. CASE UNCHANGED vars
  BY <1>9, MailboxStutter DEF vars, queues, loop
<1> QED
  BY <1>1, <1>2, <1>3, <1>4, <1>5, <1>6, <1>7, <1>8, <1>9
     DEF Next, LoopStep, Sending

(* The command path implements the mailbox: a command that trigger has     *)
(* pushed is executed at most once and never unless it was pushed, none is *)
(* lost while the loop lives, and the High ones of a thread keep their     *)
(* order, although there are two channels and an overflow between them     *)
(* (event_loop.rs 76-93 and 283-338).                                      *)
THEOREM MailboxImplemented == Spec => ImplementsMailbox
<1>1. Init => Box!Init
  BY DEF Init, Box!Init, Waiting
<1>2. Spec => [](TypeInv /\ OrderInv /\ NoDuplicates)
  BY TypeInit, TypeStep, OrderInit, OrderStep, DuplicatesInit, MailboxStep,
     PTL DEF Spec
<1>3. Spec => [][Box!Next]_(Box!vars)
  BY <1>2, MailboxStep, PTL DEF Spec
<1> QED
  BY <1>1, <1>3, PTL DEF Spec, ImplementsMailbox, Box!Spec
=============================================================================
