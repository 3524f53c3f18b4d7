----------------------------- MODULE AsyncReply -----------------------------
(***************************************************************************)
(* Handlers that answer through the worker pool, as the examples           *)
(* async-echo-rnet.rs, submit.rs and chat-room.rs do: on_traffic submits a *)
(* closure with the loop's index as shard, the closure sends AsyncWrite    *)
(* commands, and a loop writes what it finds in its channel to the         *)
(* connection the command names, if that connection is still there.        *)
(*                                                                         *)
(* This composes WorkerPool, whose callers here are the loop threads, with *)
(* the promise of the command path that Mailbox.tla states: AsyncWrite is  *)
(* of High priority, so the commands of one thread keep their order.  The  *)
(* loop threads block in submit when the shard is full.                    *)
(***************************************************************************)
EXTENDS WorkerPool, SequencesExt, FiniteSets

CONSTANTS
  N,         \* the number of loops; the loops are the Clients of the pool
  LoopOf,    \* LoopOf[i]: the thread of loop i
  Conns,     \* the connections that come up, each once
  Home,      \* Home[c]: the loop that c is registered with
  Examples,  \* the handlers: "chat", the broadcast, and "echo"
  MaxMsgs    \* bound of the model: requests per connection

Loops == 0..(N - 1)

ASSUME AsyncReplyAssumption ==
  /\ N \in Nat \ {0}
  /\ LoopOf \in [Loops -> Clients]
  /\ \A i, j \in Loops : LoopOf[i] = LoopOf[j] => i = j
  /\ Loops \subseteq Shards
  /\ Home \in [Conns -> Loops]
  /\ Examples \subseteq {"chat", "echo"}
  /\ MaxMsgs \in Nat

VARIABLES
  example,  \* the handler the program was built with
  state,    \* state[c]: the connection's life cycle
  members,  \* members[i]: the chat room's clients[i], behind a Mutex
  asked,    \* asked[c]: requests c has sent
  body,     \* body[i]: what the closures submitted by loop i captured
  todo,     \* todo[w]: the shard worker w's closure looks at next
  mail,     \* mail[i]: the urgent channel of loop i
  wire,     \* history: wire[c], the messages written to c, in order
  since     \* history: since[c], requests of the others when c was opened

replies == <<state, members, asked, body, todo, mail, wire, since>>
rvars == <<vars, replies, example>>

HomeOf(i) == {c \in Conns : Home[c] = i}

RInit ==
  /\ Init
  /\ example \in Examples
  /\ state = [c \in Conns |-> "new"]
  /\ members = [i \in Loops |-> {}]
  /\ asked = [c \in Conns |-> 0]
  /\ body = [i \in Loops |-> <<>>]
  /\ todo = [w \in WorkerIds |-> 0]
  /\ mail = [i \in Loops |-> <<>>]
  /\ wire = [c \in Conns |-> <<>>]
  /\ since = [c \in Conns |-> [d \in Conns |-> 0]]

(* The loop thread is not inside submit.                                   *)
Free(i) == at[LoopOf[i]] = "out"

(* on_open: the chat room notes the new member.                            *)
Open(c) ==
  /\ state[c] = "new" /\ Free(Home[c])
  /\ state' = [state EXCEPT ![c] = "live"]
  /\ members' = [members EXCEPT ![Home[c]] = @ \cup {c}]
  /\ since' = [since EXCEPT ![c] = asked]
  /\ UNCHANGED <<example, vars, asked, body, todo, mail, wire>>

(* on_close.  The Close command that conn.close() leaves behind may only   *)
(* close another connection of the loop, which this action does anyway.    *)
Close(c) ==
  /\ state[c] = "live" /\ Free(Home[c])
  /\ state' = [state EXCEPT ![c] = "closed"]
  /\ members' = [members EXCEPT ![Home[c]] = @ \ {c}]
  /\ UNCHANGED <<example, vars, asked, body, todo, mail, wire, since>>

(* on_traffic: the loop takes a request off the connection and submits.    *)
(* Other work of the loop may come between two requests of one call.       *)
Traffic(c) ==
  /\ state[c] = "live"
  /\ asked[c] < MaxMsgs
  /\ asked' = [asked EXCEPT ![c] = @ + 1]
  /\ body' = [body EXCEPT ![Home[c]] =
                Append(@, [from |-> c, n |-> asked[c] + 1])]
  /\ Submit(LoopOf[Home[c]], Home[c])
  /\ UNCHANGED <<example, state, members, todo, mail, wire, since>>

(* The message that the closure of a task captured.                        *)
Captured(task) ==
  LET i == CHOOSE j \in Loops : LoopOf[j] = task.by IN body[i][task.n]

(* The closure begins with the first shard of clients.                     *)
BeginTask(w) ==
  /\ Begin(w)
  /\ todo' = [todo EXCEPT ![w] = 0]
  /\ UNCHANGED <<example, state, members, asked, body, mail, wire, since>>

(* Those of loop i the closure addresses: the chat room's other members    *)
(* there, or the echo's own connection.                                    *)
Recipients(m, i) ==
  IF example = "chat"
  THEN members[i] \ {m.from}
  ELSE {m.from} \cap HomeOf(i)

Writes(w, i) ==
  LET m == Captured(job[w])
  IN  SetToSeq({[to |-> c, msg |-> m] : c \in Recipients(m, i)})

(* Variant with a fault: the closure skips a shard whose Mutex is taken.   *)
DeliverTryLock(w) ==
  /\ worker[w] = "busy" /\ todo[w] < N
  /\ \/ UNCHANGED mail
     \/ mail' = [mail EXCEPT ![todo[w]] = @ \o Writes(w, todo[w])]
  /\ todo' = [todo EXCEPT ![w] = @ + 1]
  /\ UNCHANGED <<example, vars, state, members, asked, body, wire, since>>

(* Variant with a fault: the loops' channels are bounded as well.          *)
DeliverBounded(w) ==
  /\ worker[w] = "busy" /\ todo[w] < N
  /\ Len(mail[todo[w]]) < Cap
  /\ mail' = [mail EXCEPT ![todo[w]] = @ \o Writes(w, todo[w])]
  /\ todo' = [todo EXCEPT ![w] = @ + 1]
  /\ UNCHANGED <<example, vars, state, members, asked, body, wire, since>>

(* One shard of the broadcast, under the shard's Mutex: an AsyncWrite for  *)
(* every recipient, in no particular order, none of which can block.       *)
Deliver(w) ==
  /\ worker[w] = "busy" /\ todo[w] < N
  /\ mail' = [mail EXCEPT ![todo[w]] = @ \o Writes(w, todo[w])]
  /\ todo' = [todo EXCEPT ![w] = @ + 1]
  /\ UNCHANGED <<example, vars, state, members, asked, body, wire, since>>

FinishTask(w) ==
  /\ todo[w] = N
  /\ Finish(w)
  /\ UNCHANGED <<replies, example>>

(* Command::AsyncWrite: only the connection with the very gfd is written.  *)
Write(i) ==
  /\ Free(i) /\ mail[i] # <<>>
  /\ LET c == Head(mail[i]).to
     IN  wire' = IF state[c] = "live"
                 THEN [wire EXCEPT ![c] = Append(@, Head(mail[i]).msg)]
                 ELSE wire
  /\ mail' = [mail EXCEPT ![i] = Tail(@)]
  /\ UNCHANGED <<example, vars, state, members, asked, body, todo, since>>

(* The engine makes the pool, not before the loops under run_user_lb.      *)
StartPool(p) == New(p) /\ UNCHANGED <<replies, example>>

PoolStep(p) == Install(p) /\ UNCHANGED <<replies, example>>

Blocked(i) == Submitting(LoopOf[i]) /\ UNCHANGED <<replies, example>>

TaskStep(w) == BeginTask(w) \/ Deliver(w) \/ FinishTask(w)

RNext ==
  \/ \E c \in Conns : Open(c) \/ Close(c) \/ Traffic(c)
  \/ \E i \in Loops : Blocked(i) \/ Write(i)
  \/ \E w \in WorkerIds : TaskStep(w)
  \/ \E p \in Pools : StartPool(p) \/ PoolStep(p)

RSpec == RInit /\ [][RNext]_rvars

(* The loops and the workers keep running; nobody has to connect or send.  *)
RFairness ==
  /\ \A i \in Loops : WF_rvars(Blocked(i)) /\ WF_rvars(Write(i))
  /\ \A w \in WorkerIds : WF_rvars(TaskStep(w))
  /\ \A p \in Pools : WF_rvars(PoolStep(p))

RFairSpec == RSpec /\ RFairness

-----------------------------------------------------------------------------
Got(c, d, n) == \E k \in DOMAIN wire[c] : wire[c][k] = [from |-> d, n |-> n]

(* What one connection receives from another, or back from its own         *)
(* requests, comes in the order of the requests and no message twice,      *)
(* although a pool thread answers and other workers send to the same loop  *)
(* (chat-room.rs 43-82, async-echo-rnet.rs 36-52).                         *)
RepliesInOrder ==
  \A c \in Conns : \A k, l \in DOMAIN wire[c] :
    k < l /\ wire[c][k].from = wire[c][l].from
      => wire[c][k].n < wire[c][l].n

AcceptedMsg(d, n) ==
  \E p \in Pools : \E t \in accepted[p] : Captured(t) = [from |-> d, n |-> n]

(* No gaps: a connection that received message n of another has received   *)
(* every earlier one that was sent since it was opened, except those       *)
(* submit dropped because there was no pool yet (chat-room.rs 56-79).      *)
RepliesComplete ==
  \A c, d \in Conns : \A n \in 1..asked[d] :
    Got(c, d, n) =>
      \A k \in (since[c][d] + 1)..(n - 1) : AcceptedMsg(d, k) => Got(c, d, k)

(* Those who are to get what d sends: the other members, or d itself.      *)
Addressed(d) == IF example = "chat" THEN Conns \ {d} ELSE {d}

(* A request that reached the pool is answered to everybody it is for and  *)
(* who was there when it was sent, unless they close first: loops that     *)
(* block on a full shard, workers that send to those loops and the shared  *)
(* lock do not wait for each other in a circle (worker.rs 15-23,           *)
(* async-echo-rnet.rs 36-52, chat-room.rs 56-79).                          *)
RequestsAnswered ==
  \A c, d \in Conns : \A n \in 1..MaxMsgs :
    (c \in Addressed(d) /\ AcceptedMsg(d, n) /\ state[c] = "live"
       /\ since[c][d] < n)
      ~> (Got(c, d, n) \/ state[c] = "closed")
=============================================================================
