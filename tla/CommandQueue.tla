---------------------------- MODULE CommandQueue ----------------------------
(***************************************************************************)
(* The command path into one event loop: EventLoopHandle::trigger on the   *)
(* sending side, the Waker between the threads, and run_loop together with *)
(* process_command on the receiving side.                                  *)
(*                                                                         *)
(* A sender pushes a command into one of two unbounded channels and then   *)
(* wakes the loop.  The wake is filtered by the flag `awoken`: only the    *)
(* sender that turns the flag from false to true writes the eventfd.  The  *)
(* loop clears the flag when it sees WAKE_TOKEN.  Every access to shared   *)
(* state (channel length, channel push, swap, eventfd write, is_empty,     *)
(* epoll_wait, store, try_recv) is a step of its own.  What a command does *)
(* to connections is the subject of EventLoop.tla.                         *)
(***************************************************************************)
EXTENDS Naturals, Sequences

CONSTANTS
  Senders,    \* threads other than the loop that send commands to it
  Loop,       \* the event loop's own thread, which also triggers itself
  Issues,     \* Issues[t]: the kinds of command thread t sends
  MaxUrgent,  \* MAX_POLL_EVENT_CAP: length at which Low commands overflow
  MaxBatch,   \* MAX_ASYNC_TASK_ONE_TIME: commands per process_command call
  MaxCmds     \* bound of the model: MaxCmds[t] commands issued by thread t

Threads == Senders \cup {Loop}

Kinds == {"None", "AsyncWrite", "Register", "Close", "Wake", "Read", "Write",
          "Shutdown"}

ASSUME CommandQueueAssumption ==
  /\ Loop \notin Senders
  /\ Issues \in [Threads -> SUBSET Kinds]
  /\ MaxUrgent \in Nat
  /\ MaxBatch \in Nat \ {0}
  /\ MaxCmds \in [Threads -> Nat]

Priority(kind) ==
  IF kind \in {"None", "Wake", "Register", "Close"} THEN "Low" ELSE "High"

Commands == [from : Threads, n : Nat, kind : Kinds]

VARIABLES
  urgent, common,  \* the two crossbeam channels
  awoken,          \* Waker.awoken
  edge,            \* the eventfd has an edge epoll has not reported yet
  at,              \* at[t]: the next step of thread t inside trigger
  kind,            \* kind[t]: the command thread t is sending
  issued,          \* issued[t]: how many commands thread t has created
  pc,              \* where the loop is
  pending,         \* run_loop's has_pending
  wake,            \* WAKE_TOKEN is in the batch and not yet handled
  budget,          \* iterations left in the current process_command call
  done             \* history: the commands executed, in order

queues == <<urgent, common>>
waker == <<awoken, edge>>
senders == <<at, kind, issued>>
loop == <<pc, pending, wake, budget, done>>
vars == <<queues, waker, senders, loop>>

(* Types; budget shows that process_command stays within its batch limit   *)
(* (event_loop.rs 284).                                                    *)
TypeOK ==
  /\ urgent \in Seq(Commands)
  /\ common \in Seq(Commands)
  /\ awoken \in BOOLEAN
  /\ edge \in BOOLEAN
  /\ at \in [Threads -> {"idle", "sendUrgent", "sendCommon", "swap", "write"}]
  /\ kind \in [Threads -> Kinds]
  /\ issued \in [Threads -> Nat]
  /\ pc \in {"check", "checkCommon", "poll", "drain", "drainCommon", "events",
            "stopped"}
  /\ pending \in BOOLEAN
  /\ wake \in BOOLEAN
  /\ budget \in 0..MaxBatch
  /\ done \in Seq(Commands)

Init ==
  /\ urgent = <<>>
  /\ common = <<>>
  /\ awoken = FALSE
  /\ edge = FALSE
  /\ at = [t \in Threads |-> "idle"]
  /\ kind = [t \in Threads |-> "None"]
  /\ issued = [t \in Threads |-> 0]
  /\ pc = "check"
  /\ pending = FALSE
  /\ wake = FALSE
  /\ budget = 0
  /\ done = <<>>

-----------------------------------------------------------------------------
(* Sending: EventLoopHandle::trigger, and the direct send of accept_loop.  *)

(* The loop thread sends from inside the commands and events it handles.   *)
Handling == pc = "events" \/ (pc = "drain" /\ budget < MaxBatch)

MaySend(t) == t = Loop => Handling

(* Variant with a fault: trigger ignores the priority.                     *)
OverflowsAnyPriority(k) == k # "Register" /\ Len(urgent) >= MaxUrgent

(* The first test of trigger reads the length of the urgent channel; by    *)
(* the time the command is pushed the length may be another.  A Register   *)
(* from accept_loop goes to the urgent channel whatever its length.        *)
Overflows(k) ==
  /\ Priority(k) = "Low"
  /\ k # "Register"
  /\ Len(urgent) >= MaxUrgent

Trigger(t, k) ==
  /\ at[t] = "idle"
  /\ MaySend(t)
  /\ issued[t] < MaxCmds[t]
  /\ issued' = [issued EXCEPT ![t] = @ + 1]
  /\ kind' = [kind EXCEPT ![t] = k]
  /\ at' = [at EXCEPT ![t] = IF Overflows(k) THEN "sendCommon"
                                             ELSE "sendUrgent"]
  /\ UNCHANGED <<queues, waker, loop>>

InHand(t) == [from |-> t, n |-> issued[t], kind |-> kind[t]]

(* send fails once the loop has dropped its receivers; trigger then        *)
(* returns Ok(false) without waking, and the command is lost.              *)
SendTo(t, step, q, other) ==
  /\ at[t] = step
  /\ kind' = [kind EXCEPT ![t] = "None"]
  /\ IF pc = "stopped"
     THEN /\ at' = [at EXCEPT ![t] = "idle"]
          /\ q' = q
     ELSE /\ at' = [at EXCEPT ![t] = "swap"]
          /\ q' = Append(q, InHand(t))
  /\ UNCHANGED <<other, waker, issued, loop>>

SendUrgent(t) == SendTo(t, "sendUrgent", urgent, common)
SendCommon(t) == SendTo(t, "sendCommon", common, urgent)

(* Waker::wake, first half: awoken.swap(true).                             *)
Swap(t) ==
  /\ at[t] = "swap"
  /\ awoken' = TRUE
  /\ at' = [at EXCEPT ![t] = IF awoken THEN "idle" ELSE "write"]
  /\ UNCHANGED <<queues, edge, kind, issued, loop>>

(* Waker::wake, second half: the eventfd write.                            *)
WriteEventfd(t) ==
  /\ at[t] = "write"
  /\ edge' = TRUE
  /\ at' = [at EXCEPT ![t] = "idle"]
  /\ UNCHANGED <<queues, awoken, kind, issued, loop>>

-----------------------------------------------------------------------------
(* Receiving: run_loop and process_command.                                *)

HasPending == urgent # <<>> \/ common # <<>>

(* has_pending: the second is_empty is read only if the first is true.     *)
CheckUrgent ==
  /\ pc = "check"
  /\ IF urgent # <<>> THEN pending' = TRUE /\ pc' = "poll"
                       ELSE pc' = "checkCommon" /\ UNCHANGED pending
  /\ UNCHANGED <<queues, waker, senders, wake, budget, done>>

(* Variant with a fault: has_pending looks at the urgent channel only.     *)
CheckUrgentOnly ==
  /\ pc = "checkCommon"
  /\ pending' = FALSE
  /\ pc' = "poll"
  /\ UNCHANGED <<queues, waker, senders, wake, budget, done>>

CheckCommon ==
  /\ pc = "checkCommon"
  /\ pending' = (common # <<>>)
  /\ pc' = "poll"
  /\ UNCHANGED <<queues, waker, senders, wake, budget, done>>

(* Both callers of process_command give it a fresh budget.                 *)
StartDrain == pc' = "drain" /\ budget' = MaxBatch

(* epoll_wait returns: at once when the timeout is zero, otherwise when    *)
(* the eventfd has an edge.  The edge is reported once.                    *)
Poll ==
  /\ pc = "poll"
  /\ pending \/ edge
  /\ wake' = edge
  /\ edge' = FALSE
  /\ IF pending THEN StartDrain ELSE pc' = "events" /\ UNCHANGED budget
  /\ UNCHANGED <<queues, awoken, senders, pending, done>>

(* A socket event or the tick deadline ends a wait with an infinite or a   *)
(* tick timeout: nothing makes it happen.                                  *)
PollOther ==
  /\ pc = "poll"
  /\ ~pending /\ ~edge
  /\ pc' = "events"
  /\ UNCHANGED <<queues, waker, senders, pending, wake, budget, done>>

(* A signal interrupts a sleeping epoll_wait (EINTR; a call that has an    *)
(* event to report or a zero timeout returns first): run_loop starts over. *)
PollInterrupted ==
  /\ pc = "poll"
  /\ ~pending /\ ~edge
  /\ pc' = "check"
  /\ UNCHANGED <<queues, waker, senders, pending, wake, budget, done>>

(* The loop returns; EventLoop and with it both receivers are dropped.     *)
Stop ==
  /\ pc' = "stopped"
  /\ urgent' = <<>>
  /\ common' = <<>>

(* The effects of a command on the state of this module.                   *)
Execute(c) ==
  /\ done' = Append(done, c)
  /\ at' = [at EXCEPT ![Loop] = IF c.kind = "Wake" THEN "swap" ELSE @]
  /\ budget' = budget - 1
  /\ UNCHANGED <<waker, kind, issued, pending, wake>>

(* One iteration of process_command: first a try_recv of the urgent        *)
(* channel, then, if that was empty, a try_recv of the common channel.     *)
Draining(step) == pc = step /\ at[Loop] = "idle"

Receive(q, other) ==
  /\ Execute(Head(q))
  /\ IF Head(q).kind = "Shutdown"
     THEN Stop
     ELSE /\ q' = Tail(q)
          /\ pc' = "drain"
          /\ UNCHANGED other

(* Variant with a fault: no limit on the commands of one call.             *)
DrainUrgentUnlimited ==
  /\ Draining("drain")
  /\ urgent # <<>>
  /\ Receive(urgent, common)

(* Variant with a fault: the common channel is received from as well, and  *)
(* what it gave is dropped.                                                *)
DrainUrgentEager ==
  /\ Draining("drain") /\ budget > 0
  /\ urgent # <<>>
  /\ Execute(Head(urgent))
  /\ Head(urgent).kind # "Shutdown"
  /\ urgent' = Tail(urgent)
  /\ common' = IF common = <<>> THEN <<>> ELSE Tail(common)
  /\ pc' = "drain"

DrainUrgent ==
  /\ Draining("drain") /\ budget > 0
  /\ urgent # <<>>
  /\ Receive(urgent, common)

UrgentEmpty ==
  /\ Draining("drain") /\ budget > 0
  /\ urgent = <<>>
  /\ pc' = "drainCommon"
  /\ UNCHANGED <<queues, waker, senders, pending, wake, budget, done>>

DrainCommon ==
  /\ Draining("drainCommon")
  /\ common # <<>>
  /\ Receive(common, urgent)

(* The channels are empty or the batch is used up.                         *)
DrainEnd ==
  /\ \/ Draining("drain") /\ budget = 0
     \/ Draining("drainCommon") /\ common = <<>>
  /\ pc' = "events"
  /\ budget' = 0
  /\ UNCHANGED <<queues, waker, senders, pending, wake, done>>

(* Variant with a fault: the flag is never cleared.                        *)
NoReset == UNCHANGED awoken

(* WAKE_TOKEN: Waker::reset, then process_command.                         *)
Reset == awoken' = FALSE

HandleWake ==
  /\ pc = "events" /\ at[Loop] = "idle"
  /\ wake
  /\ wake' = FALSE
  /\ Reset
  /\ StartDrain
  /\ UNCHANGED <<queues, edge, senders, pending, done>>

EndBatch ==
  /\ pc = "events" /\ at[Loop] = "idle"
  /\ ~wake
  /\ pc' = "check"
  /\ UNCHANGED <<queues, waker, senders, pending, wake, budget, done>>

(* A command, an event or a tick ends the loop: Action::Shutdown or an     *)
(* error passed on with `?`.                                               *)
Leave ==
  /\ Handling /\ at[Loop] = "idle"
  /\ Stop
  /\ UNCHANGED <<waker, senders, pending, wake, budget, done>>

-----------------------------------------------------------------------------
Sending(t) == SendUrgent(t) \/ SendCommon(t) \/ Swap(t) \/ WriteEventfd(t)

LoopStep ==
  \/ CheckUrgent \/ CheckCommon \/ Poll
  \/ DrainUrgent \/ UrgentEmpty \/ DrainCommon \/ DrainEnd
  \/ HandleWake \/ EndBatch

Next ==
  \/ \E t \in Threads : \E k \in Issues[t] : Trigger(t, k)
  \/ \E t \in Threads : Sending(t)
  \/ LoopStep
  \/ PollOther \/ PollInterrupted \/ Leave

Spec == Init /\ [][Next]_vars

(* A thread inside trigger keeps running, and so does the loop; nobody has *)
(* to send, no socket has to become ready and no error has to occur.       *)
Fairness ==
  /\ \A t \in Threads : WF_vars(Sending(t))
  /\ WF_vars(LoopStep)

FairSpec == Spec /\ Fairness

-----------------------------------------------------------------------------
(* The wake-up that goes with a queued command is still on its way.        *)
WakeInFlight == edge \/ \E t \in Threads : at[t] \in {"swap", "write"}

(* No lost wake-up: whenever the loop sleeps in epoll_wait without a zero  *)
(* timeout and a command is queued, the eventfd has an edge or a sender is *)
(* still on its way to writing it (Waker::wake and reset around run_loop's *)
(* has_pending test, poller.rs 89-98 and event_loop.rs 217-247).           *)
NoLostWakeup ==
  pc = "poll" /\ ~pending /\ HasPending => WakeInFlight

(* Commands of High priority from one thread (AsyncWrite, Read, Write,     *)
(* Shutdown) are executed in the order that thread sent them, however full *)
(* the urgent channel was when trigger looked (event_loop.rs 76-93).       *)
HighInOrder ==
  \A i, j \in DOMAIN done :
    /\ i < j
    /\ done[i].from = done[j].from
    /\ Priority(done[i].kind) = "High"
    /\ Priority(done[j].kind) = "High"
    => done[i].n < done[j].n

Queued(t, n) ==
  \E q \in {urgent, common} : \E i \in DOMAIN q : q[i].from = t /\ q[i].n = n

Executed(t, n) ==
  \E i \in DOMAIN done : done[i].from = t /\ done[i].n = n

(* Every command that entered a channel is executed, unless the loop ends  *)
(* first: neither the batch limit nor the two-channel split of             *)
(* process_command leaves one behind (event_loop.rs 283-338).              *)
CommandsExecuted ==
  \A t \in Threads : \A n \in 1..MaxCmds[t] :
    Queued(t, n) ~> (Executed(t, n) \/ pc = "stopped")

-----------------------------------------------------------------------------
(* The command path seen from outside.                                     *)

Waiting ==
  {urgent[i] : i \in DOMAIN urgent} \cup {common[i] : i \in DOMAIN common}

Box ==
  INSTANCE Mailbox WITH
    Urgent <- {k \in Kinds : Priority(k) = "High"},
    waiting <- Waiting,
    open <- (pc # "stopped")

(* The two channels, the overflow between them, the waker and the batches  *)
(* of process_command together are a Mailbox: no command is executed twice *)
(* or without having been posted, none is lost while the loop lives, and   *)
(* the High ones of a thread keep their order (event_loop.rs 76-93 and     *)
(* 283-338).                                                               *)
ImplementsMailbox == Box!Spec
=============================================================================
